---- MODULE Spec2Model ----
(***************************************************************************)
(* rexpaintjs-fork: the Color / Pixel / Layer / Image model, the merge of  *)
(* layers and the codec of the REXPaint .xp format (index.js of the fork). *)
(*                                                                         *)
(* Objects live in a heap: a Pixel and a Color have an identity, a raster  *)
(* slot holds a reference.  A JavaScript number that passes through a      *)
(* 4-byte field is kept as two 16-bit limbs [hi, lo] (hi*65536 + lo), so   *)
(* that the whole unsigned 32-bit range, and the first value above it, are *)
(* exact.                                                                  *)
(***************************************************************************)
EXTENDS Integers, Sequences, FiniteSets, TLC

VARIABLES
  heap,     \* [colors, pixels]: every Color and Pixel object allocated so far
  image,    \* the Image the caller holds: [version, layers], or NoImage
  buffer,   \* the compressed stream the caller holds, or NoBuffer
  result,   \* the outcome of the last call
  trace,    \* the calls made so far, the newest last
  input     \* what the caller started from (history, never read by the code)

vars == <<heap, image, buffer, result, trace, input>>

-----------------------------------------------------------------------------
(* Bounds of the model *)

MaxDim == 2
MaxCells == 4
MaxLayers == 2
MaxSel == 2
LayoutDim == 3
LayoutCells == 6

-----------------------------------------------------------------------------
(* JavaScript values *)

\* the number hi*65536 + lo, 0 <= lo < 65536
U32(hi, lo) == [hi |-> hi, lo |-> lo]
Num(n) == U32(n \div 65536, n % 65536)
ToInt(n) == n.hi * 65536 + n.lo

\* references: a positive reference is a Pixel of the heap
Undefined == 0
Null == -1
NotAPixel == -2

NoImage == [version |-> Num(0), layers |-> <<>>, isImage |-> FALSE]
NoBuffer == [format |-> "none", data |-> <<>>]
EmptyHeap == [colors |-> <<>>, pixels |-> <<>>]

\* a call's outcome: a value, or a thrown error
Ok(h, v) == [heap |-> h, val |-> v, err |-> ""]
Throw(h, e) == [heap |-> h, val |-> Undefined, err |-> e]

-----------------------------------------------------------------------------
(* Color *)

ChannelOk(c) == c >= 0 /\ c <= 255

\* new Color(r, g, b)
NewColor(h, r, g, b) ==
  IF ChannelOk(r) /\ ChannelOk(g) /\ ChannelOk(b)
  THEN Ok([h EXCEPT !.colors = Append(@, [r |-> r, g |-> g, b |-> b])],
          Len(h.colors) + 1)
  ELSE Throw(h, "Error")

\* Color.from(color), color a Color
ColorFrom(h, c) == NewColor(h, h.colors[c].r, h.colors[c].g, h.colors[c].b)

\* color.r = value (and g, b): the field is assigned, then checked
SetChannel(h, c, channel, value) ==
  [heap |-> [h EXCEPT !.colors[c][channel] = value],
   err |-> IF ChannelOk(value) THEN "" ELSE "Error"]

\* strings are sequences of characters
HexDigits ==
  <<"0", "1", "2", "3", "4", "5", "6", "7", "8", "9", "a", "b", "c", "d", "e", "f">>
UpperHexDigits ==
  <<"0", "1", "2", "3", "4", "5", "6", "7", "8", "9", "A", "B", "C", "D", "E", "F">>

RECURSIVE ToString16(_)
\* n.toString(16), n an integer
ToString16(n) ==
  IF n < 0 THEN <<"-">> \o ToString16(-n)
  ELSE IF n < 16 THEN <<HexDigits[n + 1]>>
  ELSE ToString16(n \div 16) \o <<HexDigits[(n % 16) + 1]>>

\* if (s.length < 2) s = '0' + s
PadHex(str) == IF Len(str) < 2 THEN <<"0">> \o str ELSE str

\* rgb2hex without the padding
rgb2hexUnpadded(r, g, b) == ToString16(r) \o ToString16(g) \o ToString16(b)

rgb2hex(r, g, b) ==
  PadHex(ToString16(r)) \o PadHex(ToString16(g)) \o PadHex(ToString16(b))

\* get hex
ColorHex(h, c) == rgb2hex(h.colors[c].r, h.colors[c].g, h.colors[c].b)

\* [0-9a-fA-F]
IsHexChar(ch) == \E i \in 1..16 : HexDigits[i] = ch \/ UpperHexDigits[i] = ch

\* Number.parseInt of two characters of [0-9a-fA-F], base 16
ParseHexPair(c1, c2) ==
  LET Value(ch) == (CHOOSE i \in 1..16 : HexDigits[i] = ch \/ UpperHexDigits[i] = ch) - 1
  IN 16 * Value(c1) + Value(c2)

\* /^#?([0-9a-fA-F]{2})([0-9a-fA-F]{2})([0-9a-fA-F]{2})$/.exec(str): the three
\* groups, or no match
MatchHex(str) ==
  LET digits == IF Len(str) > 0 /\ str[1] = "#" THEN Tail(str) ELSE str
  IN IF Len(digits) = 6 /\ \A i \in 1..6 : IsHexChar(digits[i])
     THEN [match |-> TRUE,
           groups |-> <<ParseHexPair(digits[1], digits[2]),
                        ParseHexPair(digits[3], digits[4]),
                        ParseHexPair(digits[5], digits[6])>>]
     ELSE [match |-> FALSE, groups |-> <<>>]

\* the values Color.from is given
ColorRef(c) == [type |-> "Color", ref |-> c]
ArrayOf(items) == [type |-> "array", items |-> items]
StringOf(chars) == [type |-> "string", chars |-> chars]
OtherValue == [type |-> "undefined"]

\* Color.from(color), color any value. An array of length 3 reaches
\* color.all(...), which is not a function of arrays.
ColorFromAny(h, color) ==
  IF color.type = "Color" THEN ColorFrom(h, color.ref)
  ELSE IF color.type = "array" /\ Len(color.items) = 3 THEN Throw(h, "TypeError")
  ELSE IF color.type = "string"
  THEN LET m == MatchHex(color.chars)
       IN IF m.match THEN NewColor(h, m.groups[1], m.groups[2], m.groups[3])
          ELSE Ok(h, Null)
  ELSE Ok(h, Null)

\* color.hex = value: a string that does not match is ignored
SetHex(h, c, value) ==
  IF value.type = "string" /\ MatchHex(value.chars).match
  THEN LET g == MatchHex(value.chars).groups
       IN [h EXCEPT !.colors[c] = [r |-> g[1], g |-> g[2], b |-> g[3]]]
  ELSE h

-----------------------------------------------------------------------------
(* Pixel *)

IsPixel(h, p) == p >= 1 /\ p <= Len(h.pixels)

IsMagenta(c) == c.r = 255 /\ c.g = 0 /\ c.b = 255

\* char is a number here: Number.isInteger(char) && char >= 0
CharOk(char) == char.hi >= 0

\* new Pixel(char, fg, bg), fg and bg Colors of the heap
NewPixel(h, char, fg, bg) ==
  IF CharOk(char)
  THEN Ok([h EXCEPT !.pixels = Append(@,
             [asciiCode |-> char, fg |-> fg, bg |-> bg,
              transparent |-> IsMagenta(h.colors[bg])])],
          Len(h.pixels) + 1)
  ELSE Throw(h, "Error")

\* the values new Pixel is given for char
NumberOf(n) == [type |-> "number", int |-> TRUE, n |-> n]
Fraction == [type |-> "number", int |-> FALSE]

\* new Pixel(char, fg, bg), the three of them any values
NewPixelAny(h, char, fg, bg) ==
  IF fg.type # "Color" THEN Throw(h, "Error")
  ELSE IF bg.type # "Color" THEN Throw(h, "Error")
  ELSE IF char.type # "number" THEN Throw(h, "Error")
  ELSE IF ~char.int THEN Throw(h, "Error")
  ELSE NewPixel(h, char.n, fg.ref, bg.ref)

\* Pixel.from with the two colours exchanged in the clone
PixelFromSwapped(h, p) ==
  IF IsPixel(h, p)
  THEN LET f == ColorFrom(h, h.pixels[p].fg)
       IN IF f.err # "" THEN f
          ELSE LET b == ColorFrom(f.heap, h.pixels[p].bg)
               IN IF b.err # "" THEN b
                  ELSE NewPixel(b.heap, h.pixels[p].asciiCode, b.val, f.val)
  ELSE Ok(h, Null)

\* Pixel.from that hands back the Pixel it is given
PixelFromShared(h, p) ==
  IF IsPixel(h, p) THEN Ok(h, p) ELSE Ok(h, Null)

\* Pixel.from(pixel): a clone of a Pixel; null for what is neither a Pixel nor
\* an array
PixelFrom(h, p) ==
  IF IsPixel(h, p)
  THEN LET f == ColorFrom(h, h.pixels[p].fg)
       IN IF f.err # "" THEN f
          ELSE LET b == ColorFrom(f.heap, h.pixels[p].bg)
               IN IF b.err # "" THEN b
                  ELSE NewPixel(b.heap, h.pixels[p].asciiCode, f.val, b.val)
  ELSE Ok(h, Null)

\* the values of a Pixel object, its colours dereferenced
PixelValue(h, p) ==
  [asciiCode |-> h.pixels[p].asciiCode,
   fg |-> h.colors[h.pixels[p].fg],
   bg |-> h.colors[h.pixels[p].bg],
   transparent |-> h.pixels[p].transparent]

\* Pixel.from([char, fg, bg]), char an integer >= 0, fg and bg any values
PixelFromArray(h, char, fg, bg) ==
  LET f == ColorFromAny(h, fg)
  IN IF f.err # "" THEN f
     ELSE IF f.val = Null THEN Ok(h, Null)
     ELSE LET b == ColorFromAny(f.heap, bg)
          IN IF b.err # "" THEN Throw(f.heap, b.err)
             ELSE IF b.val = Null THEN Ok(b.heap, Null)
             ELSE NewPixel(b.heap, char, f.val, b.val)

-----------------------------------------------------------------------------
(* Layer *)

\* a number argument: v when int, v + 1/2 otherwise
N(v) == [int |-> TRUE, v |-> v]
Half(v) == [int |-> FALSE, v |-> v]

NewLayer(width, height) ==
  [width |-> width, height |-> height,
   raster |-> [i \in 1..(width * height) |-> Undefined]]

\* verifyCoordinates with the upper bounds off by one
verifyCoordinatesInclusive(layer, x, y) ==
  /\ x.int
  /\ y.int
  /\ x.v >= 0
  /\ x.v <= layer.width
  /\ y.v >= 0
  /\ y.v <= layer.height

verifyCoordinates(layer, x, y) ==
  /\ x.int
  /\ y.int
  /\ x.v >= 0
  /\ x.v < layer.width
  /\ y.v >= 0
  /\ y.v < layer.height

\* the raster's slot of (x, y), as an index of the sequence (from 1)
RasterIndex(layer, x, y) == x + layer.width * y + 1

\* Layer.set(x, y, pixel): [layer, val]
LayerSet(h, layer, x, y, pixel) ==
  IF verifyCoordinates(layer, x, y) /\ IsPixel(h, pixel)
  THEN [layer |-> [layer EXCEPT !.raster[RasterIndex(layer, x.v, y.v)] = pixel],
        val |-> TRUE]
  ELSE [layer |-> layer, val |-> FALSE]

\* Layer.get without the test of the coordinates: what the array gives
LayerGetUnchecked(layer, x, y) ==
  IF verifyCoordinates(layer, x, y)
  THEN layer.raster[RasterIndex(layer, x.v, y.v)]
  ELSE Undefined

\* Layer.get(x, y)
LayerGet(layer, x, y) ==
  IF verifyCoordinates(layer, x, y)
  THEN layer.raster[RasterIndex(layer, x.v, y.v)]
  ELSE Null

\* Layer.from(layer), layer a Layer: the slots are set to the pixels got
LayerFrom(h, layer) ==
  LET RECURSIVE Copy(_, _, _)
      Copy(res, x, y) ==
        IF y >= res.height THEN res
        ELSE IF x >= res.width THEN Copy(res, 0, y + 1)
        ELSE Copy(LayerSet(h, res, N(x), N(y), LayerGet(layer, N(x), N(y))).layer,
                  x + 1, y)
  IN Copy(NewLayer(layer.width, layer.height), 0, 0)

-----------------------------------------------------------------------------
(* Image *)

\* typeof l === "number" && this.layers[l]
HasLayer(img, l) == l.int /\ l.v >= 0 /\ l.v < Len(img.layers)

\* Image.get that reads the first layer whatever l is
ImageGetFirstLayer(img, l, x, y) ==
  IF HasLayer(img, l) THEN LayerGet(img.layers[1], x, y) ELSE Null

\* Image.get(l, x, y)
ImageGet(img, l, x, y) ==
  IF HasLayer(img, l) THEN LayerGet(img.layers[l.v + 1], x, y) ELSE Null

\* Image.set(l, x, y, pixel): [image, val]
ImageSet(h, img, l, x, y, pixel) ==
  IF HasLayer(img, l)
  THEN LET r == LayerSet(h, img.layers[l.v + 1], x, y, pixel)
       IN [image |-> [img EXCEPT !.layers[l.v + 1] = r.layer], val |-> r.val]
  ELSE [image |-> img, val |-> FALSE]

\* get width, get height: null without layers
ImageWidth(img) == IF Len(img.layers) > 0 THEN img.layers[1].width ELSE Null
ImageHeight(img) == IF Len(img.layers) > 0 THEN img.layers[1].height ELSE Null

\* what mergeLayers is given: nothing, "all", a number, an array of numbers, or
\* anything else
NoArgument == [kind |-> "undefined"]
All == [kind |-> "all"]
Other == [kind |-> "other"]
Single(n) == [kind |-> "number", n |-> n]
List(items) == [kind |-> "array", items |-> items]

\* the filter without its lower bound
ValidIndexNoLowerBound(img, l) == l.int /\ l.v < Len(img.layers)

\* Number.isInteger(l) && l >= 0 && l < this.layers.length
ValidIndex(img, l) == l.int /\ l.v >= 0 /\ l.v < Len(img.layers)

\* the normalisation with a single number taken for an empty selection
NormalizeSelectionNoSingle(img, layers) ==
  IF layers.kind \in {"undefined", "all"}
  THEN [null |-> FALSE, list |-> [i \in 1..Len(img.layers) |-> i - 1]]
  ELSE IF layers.kind = "number" /\ layers.n.int
  THEN [null |-> FALSE, list |-> <<>>]
  ELSE IF layers.kind = "array"
  THEN LET kept == SelectSeq(layers.items, LAMBDA l : ValidIndex(img, l))
       IN [null |-> FALSE, list |-> [i \in 1..Len(kept) |-> kept[i].v]]
  ELSE [null |-> TRUE, list |-> <<>>]

\* the selection as a list of layer indices; null when it is none of the
\* shapes accepted
NormalizeSelection(img, layers) ==
  IF layers.kind \in {"undefined", "all"}
  THEN [null |-> FALSE, list |-> [i \in 1..Len(img.layers) |-> i - 1]]
  ELSE IF layers.kind = "number" /\ layers.n.int
  THEN [null |-> FALSE,
        list |-> IF layers.n.v >= 0 /\ layers.n.v < Len(img.layers)
                 THEN <<layers.n.v>> ELSE <<>>]
  ELSE IF layers.kind = "array"
  THEN LET kept == SelectSeq(layers.items, LAMBDA l : ValidIndex(img, l))
       IN [null |-> FALSE, list |-> [i \in 1..Len(kept) |-> kept[i].v]]
  ELSE [null |-> TRUE, list |-> <<>>]

\* the test without the transparency: every selected layer overwrites
ShouldSetAlways(h, res, x, y, pixel) ==
  IF ~IsPixel(h, LayerGet(res, N(x), N(y))) THEN "set"
  ELSE IF ~IsPixel(h, pixel) THEN "TypeError"
  ELSE "set"

\* the test without the overwrite: only an empty slot is set
ShouldSetIfEmpty(h, res, x, y, pixel) ==
  IF ~IsPixel(h, LayerGet(res, N(x), N(y))) THEN "set"
  ELSE IF ~IsPixel(h, pixel) THEN "TypeError"
  ELSE "skip"

\* !res.get(x, y) || !pixel.transparent: "set", "skip", or the TypeError of
\* reading .transparent of undefined or null
ShouldSet(h, res, x, y, pixel) ==
  IF ~IsPixel(h, LayerGet(res, N(x), N(y))) THEN "set"
  ELSE IF ~IsPixel(h, pixel) THEN "TypeError"
  ELSE IF ~h.pixels[pixel].transparent THEN "set"
  ELSE "skip"

\* the merge's state: the heap, the layer being composed, the error thrown
\* one (x, y) of one selected layer
MergeStep(st, img, index, x, y) ==
  LET pixel == ImageGet(img, N(index), N(x), N(y))
      test == ShouldSet(st.heap, st.res, x, y, pixel)
  IN IF test = "TypeError" THEN [st EXCEPT !.err = "TypeError"]
     ELSE IF test = "skip" THEN st
     ELSE LET clone == PixelFrom(st.heap, pixel)
          IN IF clone.err # "" THEN [st EXCEPT !.err = clone.err]
             ELSE [st EXCEPT !.heap = clone.heap,
                             !.res = LayerSet(clone.heap, st.res, N(x), N(y),
                                              clone.val).layer]

RECURSIVE MergeLayer(_, _, _, _, _)
\* for y < this.height: for x < this.width
MergeLayer(st, img, index, x, y) ==
  IF st.err # "" \/ y >= ImageHeight(img) THEN st
  ELSE IF x >= ImageWidth(img) THEN MergeLayer(st, img, index, 0, y + 1)
  ELSE MergeLayer(MergeStep(st, img, index, x, y), img, index, x + 1, y)

RECURSIVE MergeSelected(_, _, _, _)
\* for index of layers, from the k-th
MergeSelected(st, img, list, k) ==
  IF st.err # "" \/ k > Len(list) THEN st
  ELSE MergeSelected(MergeLayer(st, img, list[k], 0, 0), img, list, k + 1)

NullResult == [kind |-> "null"]
LayerResult(layer) == [kind |-> "Layer", layer |-> layer]

\* the merge of the layers of an index list that is not empty
MergeList(h, img, list) ==
  LET st == MergeSelected([heap |-> h,
                           res |-> NewLayer(ImageWidth(img), ImageHeight(img)),
                           err |-> ""], img, list, 1)
  IN IF st.err # "" THEN Throw(h, st.err)
     ELSE Ok(st.heap, LayerResult(st.res))

\* Image.mergeLayers(layers)
mergeLayers(h, img, layers) ==
  IF Len(img.layers) = 0 THEN Ok(h, NullResult)
  ELSE LET sel == NormalizeSelection(img, layers)
       IN IF sel.null \/ Len(sel.list) = 0 THEN Ok(h, NullResult)
          ELSE MergeList(h, img, sel.list)

-----------------------------------------------------------------------------
(* Buffer: a sequence of bytes, offsets from 0 *)

PIXEL_SIZE == 10

\* an unsigned 32-bit value: what writeUInt32LE accepts
IsUInt32(n) == n.hi >= 0 /\ n.hi <= 65535

\* the four bytes of a 32-bit value, least significant first
BytesLE(n) == <<n.lo % 256, n.lo \div 256, n.hi % 256, n.hi \div 256>>

\* buffer.readUInt32LE(offset): a RangeError past the end of the buffer
readUInt32LE(buf, offset) ==
  IF offset + 4 > Len(buf)
  THEN [val |-> Num(0), err |-> "RangeError"]
  ELSE [val |-> U32(buf[offset + 3] + 256 * buf[offset + 4],
                    buf[offset + 1] + 256 * buf[offset + 2]),
        err |-> ""]

\* readUInt8 that reads 0 past the end of the buffer
readUInt8Unchecked(buf, offset) ==
  IF offset + 1 > Len(buf)
  THEN [val |-> 0, err |-> ""]
  ELSE [val |-> buf[offset + 1], err |-> ""]

\* buffer.readUInt8(offset)
readUInt8(buf, offset) ==
  IF offset + 1 > Len(buf)
  THEN [val |-> 0, err |-> "RangeError"]
  ELSE [val |-> buf[offset + 1], err |-> ""]

\* the writer's state: the buffer, the offset of the next write, the error thrown
\* res.writeUInt32LE(value, offset), the offset left where it was
writeUInt32LE(st, value) ==
  IF st.err # "" THEN st
  ELSE IF ~IsUInt32(value) \/ st.offset + 4 > Len(st.res)
  THEN [st EXCEPT !.err = "RangeError"]
  ELSE [st EXCEPT !.res[st.offset + 1] = BytesLE(value)[1],
                  !.res[st.offset + 2] = BytesLE(value)[2],
                  !.res[st.offset + 3] = BytesLE(value)[3],
                  !.res[st.offset + 4] = BytesLE(value)[4]]

\* res.writeUInt8(value, offset++)
writeUInt8(st, value) ==
  IF st.err # "" THEN st
  ELSE IF ~ChannelOk(value) \/ st.offset + 1 > Len(st.res)
  THEN [st EXCEPT !.err = "RangeError"]
  ELSE [st EXCEPT !.res[st.offset + 1] = value, !.offset = st.offset + 1]

Advance(st, n) == IF st.err # "" THEN st ELSE [st EXCEPT !.offset = @ + n]

-----------------------------------------------------------------------------
(* writeInflatedBuffer *)

RECURSIVE PayloadSizePadded(_, _)
\* the size with one byte too many for every layer
PayloadSizePadded(layers, i) ==
  IF i > Len(layers) THEN 0
  ELSE 9 + PIXEL_SIZE * layers[i].width * layers[i].height
       + PayloadSizePadded(layers, i + 1)

RECURSIVE PayloadSize(_, _)
\* size = 8 + the sum over the layers from the i-th on
PayloadSize(layers, i) ==
  IF i > Len(layers) THEN 0
  ELSE 8 + PIXEL_SIZE * layers[i].width * layers[i].height
       + PayloadSize(layers, i + 1)

\* WritePixel with the two colours written in the wrong order
WritePixelBgFirst(h, st, pixel) ==
  IF st.err # "" THEN st
  ELSE IF ~IsPixel(h, pixel) THEN [st EXCEPT !.err = "TypeError"]
  ELSE LET p  == h.pixels[pixel]
           fg == h.colors[p.fg]
           bg == h.colors[p.bg]
           s1 == Advance(writeUInt32LE(st, p.asciiCode), 4)
           s2 == writeUInt8(writeUInt8(writeUInt8(s1, bg.r), bg.g), bg.b)
       IN writeUInt8(writeUInt8(writeUInt8(s2, fg.r), fg.g), fg.b)

\* the ten bytes of one pixel
WritePixel(h, st, pixel) ==
  IF st.err # "" THEN st
  ELSE IF ~IsPixel(h, pixel) THEN [st EXCEPT !.err = "TypeError"]
  ELSE LET p  == h.pixels[pixel]
           fg == h.colors[p.fg]
           bg == h.colors[p.bg]
           s1 == Advance(writeUInt32LE(st, p.asciiCode), 4)
           s2 == writeUInt8(writeUInt8(writeUInt8(s1, fg.r), fg.g), fg.b)
       IN writeUInt8(writeUInt8(writeUInt8(s2, bg.r), bg.g), bg.b)

RECURSIVE WritePixelsRowMajor(_, _, _, _, _)
\* WritePixels with the loops exchanged: for y < height: for x < width
WritePixelsRowMajor(h, st, layer, x, y) ==
  IF st.err # "" \/ y >= layer.height THEN st
  ELSE IF x >= layer.width THEN WritePixelsRowMajor(h, st, layer, 0, y + 1)
  ELSE WritePixelsRowMajor(h, WritePixel(h, st, LayerGet(layer, N(x), N(y))),
                           layer, x + 1, y)

RECURSIVE WritePixels(_, _, _, _, _)
\* for x < width: for y < height: the pixel at (x, y)
WritePixels(h, st, layer, x, y) ==
  IF st.err # "" \/ x >= layer.width THEN st
  ELSE IF y >= layer.height THEN WritePixels(h, st, layer, x + 1, 0)
  ELSE WritePixels(h, WritePixel(h, st, LayerGet(layer, N(x), N(y))),
                   layer, x, y + 1)

RECURSIVE WriteLayers(_, _, _, _)
WriteLayers(h, st, layers, i) ==
  IF st.err # "" \/ i > Len(layers) THEN st
  ELSE LET s1 == Advance(writeUInt32LE(st, Num(layers[i].width)), 4)
           s2 == Advance(writeUInt32LE(s1, Num(layers[i].height)), 4)
       IN WriteLayers(h, WritePixels(h, s2, layers[i], 0, 0), layers, i + 1)

\* writeInflatedBuffer(image): [res, offset, size, err]
writeInflatedBuffer(h, img) ==
  LET size == 8 + PayloadSize(img.layers, 1)
      s0 == [res |-> [i \in 1..size |-> 0], offset |-> 0, err |-> ""]
      s1 == writeUInt32LE(s0, img.version)
      s2 == writeUInt32LE([s1 EXCEPT !.offset = 4], Num(Len(img.layers)))
      s3 == WriteLayers(h, [s2 EXCEPT !.offset = 8], img.layers, 1)
  IN [res |-> s3.res, offset |-> s3.offset, size |-> size,
      err |-> IF s3.err # "" THEN s3.err
              ELSE IF s3.offset # size THEN "Error" ELSE ""]

-----------------------------------------------------------------------------
(* loadInflatedBuffer *)

\* the reader's state: the heap, the layer being filled, the offset, the error
\* one pixel record read at the offset and set at (x, y)
ReadPixel(buf, st, x, y) ==
  LET code == readUInt32LE(buf, st.offset)
      b == [k \in 1..6 |-> readUInt8(buf, st.offset + 3 + k)]
  IN IF code.err # "" THEN [st EXCEPT !.err = code.err]
     ELSE IF \E k \in 1..6 : b[k].err # "" THEN [st EXCEPT !.err = "RangeError"]
     ELSE LET fg == NewColor(st.heap, b[1].val, b[2].val, b[3].val)
              bg == NewColor(fg.heap, b[4].val, b[5].val, b[6].val)
              px == NewPixel(bg.heap, code.val, fg.val, bg.val)
          IN IF px.err # "" THEN [st EXCEPT !.err = px.err]
             ELSE [st EXCEPT !.heap = px.heap,
                             !.layer = LayerSet(px.heap, st.layer,
                                                N(x), N(y), px.val).layer,
                             !.offset = st.offset + PIXEL_SIZE]

RECURSIVE ReadPixelsRowMajor(_, _, _, _)
\* ReadPixels with the loops exchanged: for y < height: for x < width
ReadPixelsRowMajor(buf, st, x, y) ==
  IF st.err # "" \/ y >= st.layer.height THEN st
  ELSE IF x >= st.layer.width THEN ReadPixelsRowMajor(buf, st, 0, y + 1)
  ELSE ReadPixelsRowMajor(buf, ReadPixel(buf, st, x, y), x + 1, y)

RECURSIVE ReadPixels(_, _, _, _)
\* for x < width: for y < height: the next pixel record is (x, y)
ReadPixels(buf, st, x, y) ==
  IF st.err # "" \/ x >= st.layer.width THEN st
  ELSE IF y >= st.layer.height THEN ReadPixels(buf, st, x + 1, 0)
  ELSE ReadPixels(buf, ReadPixel(buf, st, x, y), x, y + 1)

\* i < numLayers, numLayers an unsigned 32-bit value
LessThan(i, n) == n.hi > 0 \/ i < n.lo

RECURSIVE ReadLayers(_, _, _, _)
ReadLayers(buf, st, i, numLayers) ==
  IF st.err # "" \/ ~LessThan(i, numLayers) THEN st
  ELSE LET width == readUInt32LE(buf, st.offset)
           height == readUInt32LE(buf, st.offset + 4)
       IN IF width.err # "" \/ height.err # ""
          THEN [st EXCEPT !.err = "RangeError"]
          ELSE LET s1 == ReadPixels(buf,
                           [st EXCEPT !.layer = NewLayer(ToInt(width.val),
                                                         ToInt(height.val)),
                                      !.offset = st.offset + 8], 0, 0)
               IN ReadLayers(buf, [s1 EXCEPT !.layers = Append(@, s1.layer)],
                             i + 1, numLayers)

\* loadInflatedBuffer(buffer): the Image, or the error thrown
loadInflatedBuffer(h, buf) ==
  LET version == readUInt32LE(buf, 0)
      numLayers == readUInt32LE(buf, 4)
  IN IF version.err # "" \/ numLayers.err # "" THEN Throw(h, "RangeError")
     ELSE LET st == ReadLayers(buf,
                      [heap |-> h, layers |-> <<>>, layer |-> NewLayer(0, 0),
                       offset |-> 8, err |-> ""], 0, numLayers.val)
          IN IF st.err # "" THEN Throw(h, st.err)
             ELSE Ok(st.heap, [version |-> version.val, layers |-> st.layers,
                               isImage |-> TRUE])

-----------------------------------------------------------------------------
(* zlib, the transport: a stream is its format and the payload it holds *)

\* zlib.gzip(res, callback)
gzip(bytes) == [err |-> FALSE, data |-> [format |-> "gzip", data |-> bytes]]

\* zlib.unzip(buffer, callback): gzip and deflate streams are inflated
unzip(stream) ==
  IF stream.format \in {"gzip", "deflate"}
  THEN [err |-> FALSE, data |-> stream.data]
  ELSE [err |-> TRUE, data |-> <<>>]

\* a promise settles once: resolve and reject after that do nothing
Pending == [state |-> "pending"]
Resolve(p, h, v) ==
  IF p.state = "pending" THEN [state |-> "resolved", heap |-> h, value |-> v]
  ELSE p
Reject(p, e) ==
  IF p.state = "pending" THEN [state |-> "rejected", reason |-> e] ELSE p

\* fromBuffer(buffer): the promise once zlib has called back
fromBuffer(h, stream) ==
  LET z == unzip(stream)
      p1 == IF z.err THEN Reject(Pending, "ZlibError") ELSE Pending
      \* on an error of zlib, inflated is undefined and the read throws
      r == IF z.err THEN Throw(h, "TypeError")
           ELSE loadInflatedBuffer(h, z.data)
  IN IF r.err = "" THEN Resolve(p1, r.heap, r.val) ELSE Reject(p1, r.err)

\* toBuffer(image): the promise once zlib has called back
toBuffer(h, img) ==
  IF ~img.isImage THEN [state |-> "thrown", reason |-> "Error"]
  ELSE LET w == writeInflatedBuffer(h, img)
       IN IF w.err # "" THEN Reject(Pending, w.err)
          ELSE LET z == gzip(w.res)
                   p1 == IF z.err THEN Reject(Pending, "ZlibError") ELSE Pending
               IN Resolve(p1, h, z.data)

-----------------------------------------------------------------------------
(* The images and the streams a caller starts from *)

\* pixel values: [asciiCode, fg, bg]
PixelA == [asciiCode |-> U32(258, 772), fg |-> <<10, 20, 30>>, bg |-> <<40, 50, 60>>]
PixelMax == [asciiCode |-> U32(65535, 65535), fg |-> <<255, 255, 255>>, bg |-> <<0, 0, 0>>]
PixelH == [asciiCode |-> Num(72), fg |-> <<160, 255, 160>>, bg |-> <<32, 32, 32>>]
TransparentValue == [asciiCode |-> Num(32), fg |-> <<0, 0, 0>>, bg |-> <<255, 0, 255>>]

CodecPool == <<PixelA, PixelMax>>

\* new Pixel(code, new Color(..), new Color(..))
MkPixel(h, pv) ==
  LET fg == NewColor(h, pv.fg[1], pv.fg[2], pv.fg[3])
      bg == NewColor(fg.heap, pv.bg[1], pv.bg[2], pv.bg[3])
  IN NewPixel(bg.heap, pv.asciiCode, fg.val, bg.val)

RECURSIVE MkLayer(_, _, _, _, _)
\* a layer whose slot i (raster order) is set to a new pixel of value
\* pool[cells[i]], and left unset where cells[i] = 0: [heap, layer]
MkLayer(h, layer, pool, cells, i) ==
  IF i > Len(cells) THEN [heap |-> h, layer |-> layer]
  ELSE IF cells[i] = 0 THEN MkLayer(h, layer, pool, cells, i + 1)
  ELSE LET px == MkPixel(h, pool[cells[i]])
           x == (i - 1) % layer.width
           y == (i - 1) \div layer.width
       IN MkLayer(px.heap, LayerSet(px.heap, layer, N(x), N(y), px.val).layer,
                  pool, cells, i + 1)

RECURSIVE MkLayers(_, _, _)
\* descs: a sequence of [width, height, pool, cells]; [heap, layers]
MkLayers(h, descs, i) ==
  IF i > Len(descs) THEN [heap |-> h, layers |-> <<>>]
  ELSE LET l == MkLayer(h, NewLayer(descs[i].width, descs[i].height),
                        descs[i].pool, descs[i].cells, 1)
           rest == MkLayers(l.heap, descs, i + 1)
       IN [heap |-> rest.heap, layers |-> <<l.layer>> \o rest.layers]

\* the layers of at most MaxCells slots, each slot drawn from idx
\* the dimensions of a layer of at most cellsLeft slots; of the layers without
\* slots, 0x0, 0x1 and 1x0
Dims(cellsLeft) ==
  { d \in (0..MaxDim) \X (0..MaxDim) :
      /\ d[1] * d[2] <= cellsLeft
      /\ d[1] * d[2] = 0 => d[1] + d[2] <= 1 }

\* the layers of dimensions dims, each slot an index of pool, or 0 if unset is
\* TRUE
LayerDescs(dims, pool, unset) ==
  UNION { { [width |-> d[1], height |-> d[2], pool |-> pool, cells |-> c] :
            c \in [1..(d[1] * d[2]) -> (IF unset THEN 0 ELSE 1)..Len(pool)] }
          : d \in dims }

RECURSIVE LayerSeqs(_, _, _)
\* the sequences of at most n layers of at most cellsLeft slots together
LayerSeqs(pool, n, cellsLeft) ==
  IF n = 0 THEN { <<>> }
  ELSE { <<>> } \cup
       UNION { { <<d>> \o rest :
                 rest \in LayerSeqs(pool, n - 1, cellsLeft - d.width * d.height) }
               : d \in LayerDescs(Dims(cellsLeft), pool, FALSE) }

Versions == { Num(0), U32(65535, 65535) }

\* raw pixel records of the wire format
RawPixels ==
  { <<4, 3, 2, 1, 10, 20, 30, 40, 50, 60>>,
    <<0, 0, 0, 128, 255, 0, 255, 255, 0, 255>> }

RawWord(n) == <<n, 0, 0, 0>>

RECURSIVE Concat(_)
Concat(seqs) == IF seqs = <<>> THEN <<>> ELSE Head(seqs) \o Concat(Tail(seqs))

\* the layer records of w*h raw pixels, w*h <= cellsLeft
RawLayers(cellsLeft) ==
  UNION { { RawWord(d[1]) \o RawWord(d[2]) \o Concat(ps) :
            ps \in [1..(d[1] * d[2]) -> RawPixels] }
          : d \in Dims(cellsLeft) }

RawCells(rec) == rec[1] * rec[5]

RECURSIVE RawLayerSeqs(_, _)
\* n layer records back to back
RawLayerSeqs(n, cellsLeft) ==
  IF n = 0 THEN { <<>> }
  ELSE UNION { { l \o rest : rest \in RawLayerSeqs(n - 1, cellsLeft - RawCells(l)) }
               : l \in RawLayers(cellsLeft) }

\* payloads that follow the layout exactly
GoodPayloads ==
  UNION { { v \o RawWord(n) \o ls : ls \in RawLayerSeqs(n, MaxCells),
                                    v \in { RawWord(0), <<255, 255, 255, 255>> } }
          : n \in 0..MaxLayers }

\* payloads cut short, or with bytes after the last record
BadPayloads ==
  { SubSeq(b, 1, Len(b) - 1) : b \in { g \in GoodPayloads : g[1] = 0 } }
  \cup { b \o <<7>> : b \in { g \in GoodPayloads : g[1] = 0 /\ Len(g) <= 26 } }
  \cup { [b EXCEPT ![5] = @ + 1] : b \in { g \in GoodPayloads : g[1] = 0 /\ Len(g) <= 26 } }

Streams ==
  { [format |-> "gzip", data |-> b] : b \in GoodPayloads \cup BadPayloads }
  \cup { [format |-> f, data |-> <<0, 0, 0, 0, 0, 0, 0, 0>>] :
           f \in { "deflate", "corrupt" } }

-----------------------------------------------------------------------------
(* The codec: a caller that holds an image or a stream, and converts *)

InitCodec ==
  /\ \/ \E descs \in LayerSeqs(CodecPool, MaxLayers, MaxCells),
           v \in Versions :
          LET m == MkLayers(EmptyHeap, descs, 1)
              img == [version |-> v, layers |-> m.layers, isImage |-> TRUE]
          IN /\ heap = m.heap
             /\ image = img
             /\ buffer = NoBuffer
             /\ input = [kind |-> "image", image |-> img, stream |-> NoBuffer]
     \/ \E s \in Streams :
          /\ heap = EmptyHeap
          /\ image = NoImage
          /\ buffer = s
          /\ input = [kind |-> "stream", image |-> NoImage, stream |-> s]
  /\ result = [state |-> "none"]
  /\ trace = <<>>

\* the caller exports the image it started from, or the one it has just read
\* await toBuffer(image)
ToBuffer ==
  /\ \/ input.kind = "image" /\ trace = <<>>
     \/ input.kind = "stream" /\ trace = <<"fromBuffer">>
  /\ LET p == toBuffer(heap, image)
     IN /\ result' = IF p.state = "resolved"
                     THEN [state |-> "resolved"]
                     ELSE [state |-> p.state, reason |-> p.reason]
        /\ buffer' = IF p.state = "resolved" THEN p.value ELSE buffer
  /\ trace' = Append(trace, "toBuffer")
  /\ UNCHANGED <<heap, image, input>>

\* the caller reads the stream it started from, or the one it has just exported
\* await fromBuffer(buffer)
FromBuffer ==
  /\ \/ input.kind = "stream" /\ trace = <<>>
     \/ input.kind = "image" /\ trace = <<"toBuffer">> /\ buffer # NoBuffer
  /\ LET p == fromBuffer(heap, buffer)
     IN /\ result' = IF p.state = "resolved"
                     THEN [state |-> "resolved"]
                     ELSE [state |-> p.state, reason |-> p.reason]
        /\ image' = IF p.state = "resolved" THEN p.value ELSE image
        /\ heap' = IF p.state = "resolved" THEN p.heap ELSE heap
  /\ trace' = Append(trace, "fromBuffer")
  /\ UNCHANGED <<buffer, input>>

NextCodec == ToBuffer \/ FromBuffer

SpecCodec == InitCodec /\ [][NextCodec]_vars

-----------------------------------------------------------------------------
(* Claims about the codec *)

Coords(layer) == (0..(layer.width - 1)) \X (0..(layer.height - 1))

\* every slot of every layer holds a Pixel the 4-byte field and the byte
\* fields can hold
ValidImage(h, img) ==
  /\ img.isImage
  /\ IsUInt32(img.version)
  /\ \A l \in 1..Len(img.layers) : \A c \in Coords(img.layers[l]) :
       LET p == LayerGet(img.layers[l], N(c[1]), N(c[2]))
       IN /\ IsPixel(h, p)
          /\ IsUInt32(h.pixels[p].asciiCode)
          /\ \A col \in { h.colors[h.pixels[p].fg], h.colors[h.pixels[p].bg] } :
               ChannelOk(col.r) /\ ChannelOk(col.g) /\ ChannelOk(col.b)

\* the same glyph, foreground and background
SamePixel(h, p, q) ==
  /\ IsPixel(h, p)
  /\ IsPixel(h, q)
  /\ PixelValue(h, p).asciiCode = PixelValue(h, q).asciiCode
  /\ PixelValue(h, p).fg = PixelValue(h, q).fg
  /\ PixelValue(h, p).bg = PixelValue(h, q).bg

SameImage(h, a, b) ==
  /\ a.version = b.version
  /\ Len(a.layers) = Len(b.layers)
  /\ \A l \in 1..Len(a.layers) :
       /\ a.layers[l].width = b.layers[l].width
       /\ a.layers[l].height = b.layers[l].height
       /\ \A c \in Coords(a.layers[l]) :
            SamePixel(h, LayerGet(a.layers[l], N(c[1]), N(c[2])),
                         LayerGet(b.layers[l], N(c[1]), N(c[2])))

\* C1: an image whose slots all hold valid pixels, exported with toBuffer and
\* read back with fromBuffer, comes back with the same version, the same
\* layers (count, width, height) and the same glyph, foreground and background
\* at every (x, y).
C1_RoundTrip ==
  (/\ input.kind = "image"
   /\ ValidImage(heap, input.image)
   /\ trace = <<"toBuffer", "fromBuffer">>)
  => /\ result.state = "resolved"
     /\ SameImage(heap, image, input.image)

\* a two-layer image with a 2x2 layer of different pixels has made the trip
C1_Witness ==
  /\ input.kind = "image"
  /\ trace = <<"toBuffer", "fromBuffer">>
  /\ result.state = "resolved"
  /\ image.version = U32(65535, 65535)
  /\ Len(image.layers) = 2
  /\ image.layers[1].width = 2
  /\ image.layers[1].height = 2
  /\ ~SamePixel(heap, LayerGet(image.layers[1], N(1), N(0)),
                      LayerGet(image.layers[1], N(0), N(1)))

\* the little-endian word at an offset, for the small words of a payload
Word(b, off) == b[off + 1] + 256 * b[off + 2] + 65536 * b[off + 3]

RECURSIVE LayersEnd(_, _, _)
\* the offset after n layer records from off, -1 when the payload ends first
LayersEnd(b, off, n) ==
  IF n = 0 THEN off
  ELSE IF off + 8 > Len(b) THEN -1
  ELSE LayersEnd(b, off + 8 + 10 * Word(b, off) * Word(b, off + 4), n - 1)

\* the payload is a header and exactly the layer records it announces
WellFormed(b) ==
  /\ Len(b) >= 8
  /\ LayersEnd(b, 8, Word(b, 4)) = Len(b)

\* C2: a stream whose payload is a well-formed image record, read with
\* fromBuffer and exported again with toBuffer, gives a stream with the same
\* payload, byte for byte.
C2_ByteRoundTrip ==
  (/\ input.kind = "stream"
   /\ ~unzip(input.stream).err
   /\ WellFormed(unzip(input.stream).data)
   /\ trace = <<"fromBuffer", "toBuffer">>)
  => /\ result.state = "resolved"
     /\ ~unzip(buffer).err
     /\ unzip(buffer).data = unzip(input.stream).data

\* a payload with a 2x2 layer of different pixel records has made the trip
C2_Witness ==
  /\ input.kind = "stream"
  /\ trace = <<"fromBuffer", "toBuffer">>
  /\ result.state = "resolved"
  /\ Len(input.stream.data) = 56
  /\ WellFormed(input.stream.data)
  /\ Word(input.stream.data, 8) = 2
  /\ Word(input.stream.data, 12) = 2
  /\ input.stream.data[17] # input.stream.data[27]
  /\ input.stream.data[1] = 255

-----------------------------------------------------------------------------
(* Merging: a caller that holds an image and merges a selection of layers *)

\* the pixels of the k-th layer: a transparent one and an opaque one, so that
\* a merged pixel tells the layer it comes from; the second layer's
\* transparent pixel is Pixel.TRANSPARENT
Transp(k) ==
  IF k = 2 THEN TransparentValue
  ELSE [asciiCode |-> Num(k), fg |-> <<k, k, k>>, bg |-> <<255, 0, 255>>]
Opaque(k) == [asciiCode |-> Num(71 + k), fg |-> <<255, 255, 255>>, bg |-> <<0, 0, k>>]
MergePool(k) == <<Transp(k), Opaque(k)>>

\* the dimensions of the layers merged: 0x0, and those with slots
MergeDims(cellsLeft) ==
  { d \in Dims(cellsLeft) : d[1] * d[2] > 0 \/ d = <<0, 0>> }

RECURSIVE SameDimSeqs(_, _, _)
\* layers k..n, all of dimensions d, slots set or unset
SameDimSeqs(d, k, n) ==
  IF k > n THEN { <<>> }
  ELSE { <<l>> \o rest : l \in LayerDescs({d}, MergePool(k), TRUE),
                         rest \in SameDimSeqs(d, k + 1, n) }

\* no layer; up to MaxLayers layers of the same dimensions; two layers of
\* different dimensions; at most MaxCells slots in all
MergeImages ==
  { <<>> }
  \cup UNION { UNION { SameDimSeqs(d, 1, n)
                       : n \in { m \in 1..MaxLayers : m * d[1] * d[2] <= MaxCells } }
               : d \in MergeDims(MaxCells) }
  \cup { <<a, b>> :
           <<a, b>> \in
             { ab \in LayerDescs(MergeDims(MaxCells), MergePool(1), TRUE)
                      \X LayerDescs(MergeDims(MaxCells), MergePool(2), TRUE) :
                 /\ <<ab[1].width, ab[1].height>> # <<ab[2].width, ab[2].height>>
                 /\ ab[1].width * ab[1].height + ab[2].width * ab[2].height
                      <= MaxCells } }

RECURSIVE IndexLists(_)
\* the lists of at most n indices below MaxLayers
IndexLists(n) ==
  IF n = 0 THEN { <<>> }
  ELSE IndexLists(n - 1)
       \cup { <<N(i)>> \o l : i \in 0..(MaxLayers - 1),
                              l \in { m \in IndexLists(n - 1) : Len(m) = n - 1 } }

\* a list with a negative entry before it and a non-integer after its head
WithInvalid(l) ==
  IF l = <<>> THEN <<N(-1), Half(0)>>
  ELSE <<N(-1), Head(l), Half(0)>> \o Tail(l)

Selections ==
  { NoArgument, All, Other, Single(Half(0)) }
  \cup { Single(N(i)) : i \in -1..MaxLayers }
  \cup { List(l) : l \in IndexLists(MaxSel) }
  \cup { List(WithInvalid(l)) : l \in IndexLists(MaxSel) }

InitMerge ==
  /\ \E descs \in MergeImages :
       LET m == MkLayers(EmptyHeap, descs, 1)
           img == [version |-> Num(0), layers |-> m.layers, isImage |-> TRUE]
       IN /\ heap = m.heap
          /\ image = img
          /\ input = [kind |-> "merge", image |-> img, stream |-> NoBuffer]
  /\ buffer = NoBuffer
  /\ result = [state |-> "none"]
  /\ trace = <<>>

\* image.mergeLayers(layers)
MergeLayers ==
  /\ trace = <<>>
  /\ \E layers \in Selections :
       LET r == mergeLayers(heap, image, layers)
       IN /\ heap' = r.heap
          /\ result' = IF r.err # ""
                       THEN [state |-> "thrown", reason |-> r.err, layers |-> layers]
                       ELSE [state |-> "returned", val |-> r.val, layers |-> layers]
  /\ trace' = <<"mergeLayers">>
  /\ UNCHANGED <<image, buffer, input>>

NextMerge == MergeLayers

SpecMerge == InitMerge /\ [][NextMerge]_vars

-----------------------------------------------------------------------------
(* Claims about mergeLayers *)

Returned(kind) == result.state = "returned" /\ result.val.kind = kind

\* every layer has the first layer's dimensions
SameDims(img) ==
  \A l \in 1..Len(img.layers) :
    /\ img.layers[l].width = img.layers[1].width
    /\ img.layers[l].height = img.layers[1].height

AllSet(h, layer) == \A i \in 1..Len(layer.raster) : IsPixel(h, layer.raster[i])

\* b is at least as wide and as high as a
Covers(b, a) == b.width >= a.width /\ b.height >= a.height

\* c is another Pixel object than p, with its own Color objects and p's values
IsCopy(h, c, p) ==
  /\ IsPixel(h, c)
  /\ IsPixel(h, p)
  /\ c # p
  /\ h.pixels[c].fg # h.pixels[p].fg
  /\ h.pixels[c].bg # h.pixels[p].bg
  /\ PixelValue(h, c) = PixelValue(h, p)

\* structural equality of two layers: the dimensions, and slot by slot both
\* unset or pixels of the same values
LayerEqual(h, a, b) ==
  /\ a.width = b.width
  /\ a.height = b.height
  /\ Len(a.raster) = Len(b.raster)
  /\ \A i \in 1..Len(a.raster) :
       IF IsPixel(h, a.raster[i])
       THEN IsPixel(h, b.raster[i])
            /\ PixelValue(h, a.raster[i]) = PixelValue(h, b.raster[i])
       ELSE a.raster[i] = b.raster[i]

\* the call's outcome is the outcome e of another evaluation
SameOutcome(e) ==
  IF e.err # "" THEN result.state = "thrown" /\ result.reason = e.err
  ELSE /\ result.state = "returned"
       /\ result.val.kind = e.val.kind
       /\ e.val.kind = "Layer"
            => LayerEqual(e.heap, result.val.layer, e.val.layer)

InRange(img, e) == e.int /\ e.v >= 0 /\ e.v < Len(img.layers)

\* the pixel the rule of composition gives at (x, y) for the list s: that of
\* the last layer of s not transparent there, of the first layer of s if none
Composite(h, img, s, x, y) ==
  LET px(k) == ImageGet(img, s[k], N(x), N(y))
      opaque == { k \in 1..Len(s) : ~h.pixels[px(k)].transparent }
  IN IF opaque = {} THEN px(1)
     ELSE px(CHOOSE k \in opaque : \A j \in opaque : j <= k)

\* C3: with layers of the same dimensions and every slot set, the merge of a
\* non-empty list s of valid indices has the first layer's dimensions and
\* holds at each (x, y) a copy of the pixel of the last layer of s that is not
\* transparent there, or of the first layer of s when all are transparent.
C3_Compositing ==
  (/\ trace = <<"mergeLayers">>
   /\ result.layers.kind = "array"
   /\ Len(result.layers.items) > 0
   /\ \A k \in 1..Len(result.layers.items) : InRange(image, result.layers.items[k])
   /\ SameDims(image)
   /\ \A l \in 1..Len(image.layers) : AllSet(heap, image.layers[l]))
  => /\ Returned("Layer")
     /\ result.val.layer.width = image.layers[1].width
     /\ result.val.layer.height = image.layers[1].height
     /\ \A c \in Coords(image.layers[1]) :
          IsCopy(heap, LayerGet(result.val.layer, N(c[1]), N(c[2])),
                 Composite(heap, image, result.layers.items, c[1], c[2]))

\* the upper layer listed first: opaque over transparent and transparent over
\* opaque at different slots
C3_Witness ==
  /\ trace = <<"mergeLayers">>
  /\ result.layers = List(<<N(1), N(0)>>)
  /\ Len(image.layers) = 2
  /\ SameDims(image)
  /\ Len(image.layers[1].raster) = 2
  /\ \A l \in 1..2 : AllSet(heap, image.layers[l])
  /\ heap.pixels[image.layers[1].raster[1]].transparent
  /\ ~heap.pixels[image.layers[1].raster[2]].transparent
  /\ heap.pixels[image.layers[2].raster[1]].transparent
  /\ ~heap.pixels[image.layers[2].raster[2]].transparent
  /\ Returned("Layer")

FilledOpaque(h, layer) ==
  /\ AllSet(h, layer)
  /\ \A i \in 1..Len(layer.raster) : ~h.pixels[layer.raster[i]].transparent

FilledTransparent(h, layer) ==
  /\ AllSet(h, layer)
  /\ \A i \in 1..Len(layer.raster) :
       PixelValue(h, layer.raster[i]) =
         [asciiCode |-> Num(32), fg |-> [r |-> 0, g |-> 0, b |-> 0],
          bg |-> [r |-> 255, g |-> 0, b |-> 255], transparent |-> TRUE]

C6_SelectionNormalization ==
  (trace = <<"mergeLayers">> /\ Len(image.layers) >= 1)
  => /\ (result.layers.kind = "number" /\ InRange(image, result.layers.n))
          => SameOutcome(mergeLayers(heap, image, List(<<result.layers.n>>)))
     /\ result.layers.kind \in {"all", "undefined"}
          => SameOutcome(mergeLayers(heap, image,
               List([i \in 1..Len(image.layers) |-> N(i - 1)])))

\* the second layer alone by its number, and both layers by default
C6_Witness ==
  /\ trace = <<"mergeLayers">>
  /\ Len(image.layers) = 2
  /\ Len(image.layers[2].raster) = 2
  /\ \A l \in 1..2 : AllSet(heap, image.layers[l])
  /\ result.layers \in { Single(N(1)), NoArgument }
  /\ Returned("Layer")

\* the entries of a list that are layer indices, in the order of the list
ValidEntries(img, items) ==
  LET kept == SelectSeq(items, LAMBDA e : InRange(img, e))
  IN [i \in 1..Len(kept) |-> kept[i].v]

\* C7: the result is null, not an empty layer, for an image without layers,
\* for a single index out of range, for an empty list and for a list without
\* a valid entry; a list with a valid entry gives the merge of its valid
\* entries in their order.
C7_EmptySelection ==
  trace = <<"mergeLayers">>
  => /\ Len(image.layers) = 0 => Returned("null")
     /\ (result.layers.kind = "number" /\ result.layers.n.int
         /\ ~InRange(image, result.layers.n)) => Returned("null")
     /\ (result.layers.kind = "array"
         /\ ValidEntries(image, result.layers.items) = <<>>) => Returned("null")
     /\ (result.layers.kind = "array"
         /\ ValidEntries(image, result.layers.items) # <<>>)
          => SameOutcome(MergeList(heap, image,
                                   ValidEntries(image, result.layers.items)))

\* a list of two valid indices among a negative and a non-integer entry
C7_Witness ==
  /\ trace = <<"mergeLayers">>
  /\ Len(image.layers) = 2
  /\ Len(image.layers[1].raster) = 2
  /\ \A l \in 1..2 : AllSet(heap, image.layers[l])
  /\ result.layers = List(<<N(-1), N(1), Half(0), N(0)>>)
  /\ Returned("Layer")

\* C8: on an image of one layer L, mergeLayers([0]) returns a layer
\* structurally equal to Layer.from(L): the same dimensions, the same pixel
\* values where a slot is set, nothing where it is not.
C8_SingleLayerMerge ==
  (/\ trace = <<"mergeLayers">>
   /\ Len(image.layers) = 1
   /\ result.layers = List(<<N(0)>>))
  => /\ Returned("Layer")
     /\ LayerEqual(heap, result.val.layer, LayerFrom(heap, image.layers[1]))

\* L holds nothing in one slot, a transparent and an opaque pixel in others
C8_Witness ==
  /\ trace = <<"mergeLayers">>
  /\ Len(image.layers) = 1
  /\ image.layers[1].width = 2
  /\ image.layers[1].height = 2
  /\ image.layers[1].raster[1] = Undefined
  /\ IsPixel(heap, image.layers[1].raster[2])
  /\ IsPixel(heap, image.layers[1].raster[3])
  /\ heap.pixels[image.layers[1].raster[2]].transparent
  /\ ~heap.pixels[image.layers[1].raster[3]].transparent
  /\ result.layers = List(<<N(0)>>)
  /\ Returned("Layer")

-----------------------------------------------------------------------------
(* Setting pixels: a caller that holds an image and a pixel of its own, sets *)
(* slots and changes its pixel afterwards                                    *)

\* the objects the caller starts with: Pixel.TRANSPARENT and its own pixel
TRANSPARENT == 1
CallerPixel == 2

CallerHeap == MkPixel(MkPixel(EmptyHeap, TransparentValue).heap, PixelH).heap

\* one empty layer, or two empty layers of one slot
EmptyImages ==
  { <<NewLayer(d[1], d[2])>> : d \in { e \in Dims(MaxCells) : e[1] * e[2] > 0 } }
  \cup { <<NewLayer(1, 1), NewLayer(1, 1)>> }

\* what set is called with on a layer: every slot with either pixel, and
\* calls with one bad argument
SetArgs(layer) ==
  { <<N(x), N(y), q>> : x \in 0..(layer.width - 1), y \in 0..(layer.height - 1),
                        q \in { TRANSPARENT, CallerPixel } }
  \cup { <<x, N(0), CallerPixel>> : x \in { N(-1), N(layer.width), Half(0) } }
  \cup { <<N(0), y, CallerPixel>> : y \in { N(-1), N(layer.height), Half(0) } }
  \cup { <<N(0), N(0), q>> : q \in { Undefined, Null, NotAPixel } }

\* the assignments the caller makes to its pixel
GlyphWrites == { Num(1) }
ChannelWrites == { <<"fg", "r", 0>>, <<"bg", "b", 255>> }

InitSet ==
  /\ heap = CallerHeap
  /\ \E layers \in EmptyImages :
       /\ image = [version |-> Num(0), layers |-> layers, isImage |-> TRUE]
       /\ input = [kind |-> "set", image |-> image, stream |-> NoBuffer]
  /\ buffer = NoBuffer
  /\ result = [op |-> "none"]
  /\ trace = <<>>

\* layer.set(x, y, pixel), layer a layer of the image
LayerSetCall ==
  /\ \E k \in 1..Len(image.layers) : \E a \in SetArgs(image.layers[k]) :
       LET r == LayerSet(heap, image.layers[k], a[1], a[2], a[3])
       IN /\ image' = [image EXCEPT !.layers[k] = r.layer]
          /\ result' = [op |-> "Layer.set", l |-> N(k - 1), x |-> a[1],
                        y |-> a[2], pixel |-> a[3], val |-> r.val]
  /\ UNCHANGED <<heap, buffer, trace, input>>

\* image.set(l, x, y, pixel)
ImageSetCall ==
  /\ \E l \in { N(i) : i \in -1..Len(image.layers) } \cup { Half(0) } :
       \E a \in IF HasLayer(image, l)
                THEN { b \in SetArgs(image.layers[l.v + 1]) : IsPixel(heap, b[3]) }
                ELSE { <<N(0), N(0), CallerPixel>> } :
         LET r == ImageSet(heap, image, l, a[1], a[2], a[3])
         IN /\ image' = r.image
            /\ result' = [op |-> "Image.set", l |-> l, x |-> a[1], y |-> a[2],
                          pixel |-> a[3], val |-> r.val]
  /\ UNCHANGED <<heap, buffer, trace, input>>

\* pixel.asciiCode = value, on the caller's pixel
MutateGlyph ==
  /\ \E v \in GlyphWrites :
       heap' = [heap EXCEPT !.pixels[CallerPixel].asciiCode = v]
  /\ result' = [op |-> "mutate"]
  /\ UNCHANGED <<image, buffer, trace, input>>

\* pixel.fg.r = value (and bg, g, b), on the caller's pixel
MutateColor ==
  /\ \E w \in ChannelWrites :
       LET r == SetChannel(heap, heap.pixels[CallerPixel][w[1]], w[2], w[3])
       IN heap' = r.heap
  /\ result' = [op |-> "mutate"]
  /\ UNCHANGED <<image, buffer, trace, input>>

\* what get is called with on a layer: every slot, and calls with one bad
\* coordinate
GetArgs(layer) ==
  { <<N(x), N(y)>> : x \in 0..(layer.width - 1), y \in 0..(layer.height - 1) }
  \cup { <<x, N(0)>> : x \in { N(-1), N(layer.width), Half(0) } }
  \cup { <<N(0), y>> : y \in { N(-1), N(layer.height), Half(0) } }

\* layer.get(x, y), layer a layer of the image
LayerGetCall ==
  /\ \E k \in 1..Len(image.layers) : \E a \in GetArgs(image.layers[k]) :
       result' = [op |-> "Layer.get", l |-> N(k - 1), x |-> a[1], y |-> a[2],
                  val |-> LayerGet(image.layers[k], a[1], a[2])]
  /\ UNCHANGED <<heap, image, buffer, trace, input>>

\* image.get(l, x, y)
ImageGetCall ==
  /\ \E l \in { N(i) : i \in -1..Len(image.layers) } \cup { Half(0) } :
       \E a \in IF HasLayer(image, l) THEN GetArgs(image.layers[l.v + 1])
                ELSE { <<N(0), N(0)>> } :
         result' = [op |-> "Image.get", l |-> l, x |-> a[1], y |-> a[2],
                    val |-> ImageGet(image, l, a[1], a[2])]
  /\ UNCHANGED <<heap, image, buffer, trace, input>>

NextSet ==
  \/ LayerSetCall
  \/ ImageSetCall
  \/ LayerGetCall
  \/ ImageGetCall
  \/ MutateGlyph
  \/ MutateColor

SpecSet == InitSet /\ [][NextSet]_vars

-----------------------------------------------------------------------------
(* Claims about set *)

\* the slots of the image: <<layer, index in the raster>>
Slots(img) ==
  UNION { { <<k, i>> : i \in 1..Len(img.layers[k].raster) }
          : k \in 1..Len(img.layers) }

\* what get returns for a slot is the same before and after the step
SlotUnchanged(s) ==
  LET before == image.layers[s[1]].raster[s[2]]
      after == image'.layers[s[1]].raster[s[2]]
  IN /\ after = before
     /\ IsPixel(heap, before) => PixelValue(heap', after) = PixelValue(heap, before)

\* the slot a set call is about
SetSlot(call) ==
  <<call.l.v + 1,
    call.x.v + image.layers[call.l.v + 1].width * call.y.v + 1>>

\* C9: set stores an independent copy. A change of the caller's pixel, or of
\* its colours, after a set leaves what get returns for every slot as it was;
\* and the slot a set has filled holds neither the object it was given nor an
\* object another slot holds.
C9_SetStoresCopy ==
  [][/\ result'.op = "mutate" => \A s \in Slots(image) : SlotUnchanged(s)
     /\ (result'.op \in {"Layer.set", "Image.set"} /\ result'.val)
          => LET s == SetSlot(result')
                 stored == image'.layers[s[1]].raster[s[2]]
             IN /\ stored # result'.pixel
                /\ \A t \in Slots(image') \ {s} :
                     image'.layers[t[1]].raster[t[2]] # stored]_vars

SetArgsValid(h, layer, call) ==
  /\ call.x.int
  /\ call.y.int
  /\ call.x.v >= 0
  /\ call.x.v < layer.width
  /\ call.y.v >= 0
  /\ call.y.v < layer.height
  /\ IsPixel(h, call.pixel)

\* C10: Layer.set is all or nothing. With a coordinate that is not an integer,
\* is negative or is not below the width or the height, or with something
\* that is not a Pixel, it returns false and the image is as before; with
\* valid arguments it returns true, the slot x + width*y holds the pixel's
\* values and no other slot has changed.
C10_SetAllOrNothing ==
  [][(result'.op \in {"Layer.set", "Image.set"} /\ HasLayer(image, result'.l))
       => IF SetArgsValid(heap, image.layers[result'.l.v + 1], result')
          THEN /\ result'.val = TRUE
               /\ heap' = heap
               /\ Slots(image') = Slots(image)
               /\ \A s \in Slots(image) \ {SetSlot(result')} : SlotUnchanged(s)
               /\ LET s == SetSlot(result')
                      stored == image'.layers[s[1]].raster[s[2]]
                  IN /\ IsPixel(heap', stored)
                     /\ PixelValue(heap', stored) = PixelValue(heap, result'.pixel)
          ELSE /\ result'.val = FALSE
               /\ image' = image
               /\ heap' = heap]_vars

\* a set with a non-integer coordinate was refused on a layer that holds
\* pixels
C10_Witness ==
  /\ result.op = "Layer.set"
  /\ ~result.x.int
  /\ result.val = FALSE
  /\ Len(image.layers[1].raster) = 4
  /\ IsPixel(heap, image.layers[1].raster[2])
  /\ IsPixel(heap, image.layers[1].raster[3])

\* an integer in [0, layers.length)
LayerIndexValid(img, l) == l.int /\ l.v >= 0 /\ l.v < Len(img.layers)

CoordinatesValid(layer, x, y) ==
  /\ x.int
  /\ y.int
  /\ x.v >= 0
  /\ x.v < layer.width
  /\ y.v >= 0
  /\ y.v < layer.height

\* C11: a miss is a value, not an exception. Layer.get gives null for
\* coordinates that are not integers or lie outside the grid; Image.get gives
\* null and Image.set gives false for a layer index that is not an integer in
\* [0, layers.length); and none of these calls changes the image or an object.
C11_BoundsMiss ==
  [][/\ (result'.op = "Layer.get"
          /\ ~CoordinatesValid(image.layers[result'.l.v + 1], result'.x, result'.y))
         => result'.val = Null /\ image' = image /\ heap' = heap
     /\ (result'.op = "Image.get" /\ LayerIndexValid(image, result'.l)
          /\ ~CoordinatesValid(image.layers[result'.l.v + 1], result'.x, result'.y))
         => result'.val = Null /\ image' = image /\ heap' = heap
     /\ (result'.op = "Image.get" /\ ~LayerIndexValid(image, result'.l))
         => result'.val = Null /\ image' = image /\ heap' = heap
     /\ (result'.op = "Image.set" /\ ~LayerIndexValid(image, result'.l))
         => result'.val = FALSE /\ image' = image /\ heap' = heap]_vars

\* get was given a coordinate equal to the width on a layer that holds pixels,
\* and gave null
C11_Witness ==
  /\ result.op = "Layer.get"
  /\ result.x = N(image.layers[1].width)
  /\ result.val = Null
  /\ \A i \in 1..Len(image.layers[1].raster) :
       IsPixel(heap, image.layers[1].raster[i])

-----------------------------------------------------------------------------
(* Colours: a caller that makes a colour from three numbers or from a value, *)
(* reads its hex string, makes a colour from a string, assigns a channel     *)

\* the numbers given for a channel: in range, and the nearest ones out of it
ChannelArgs == { -1, 0, 10, 15, 16, 255, 256 }

\* the strings given to Color.from and to the hex setter
HexStrings ==
  { <<"z", "z", "0", "0", "0", "0">>,
    <<"#", "a", "0", "f", "f", "a", "0">>,
    <<"A", "0", "F", "F", "0", "a">>,
    <<"#", "f", "f", "f">>,
    <<"a", "0", "f", "f", "a", "0", "a">>,
    <<"#", "#", "0", "0", "0", "0", "0", "0">>,
    <<"-", "1", "0", "0", "0", "0">>,
    <<>> }

\* the arrays given to Color.from
ColorArrays ==
  { <<0, 0, 0>>, <<255, 0, 255>>, <<10, 15, 16>>, <<256, 0, 0>>, <<0, -1, 0>>,
    <<1, 2>>, <<1, 2, 3, 4>>, <<>> }

ColorValues ==
  { StringOf(str) : str \in HexStrings }
  \cup { ArrayOf(a) : a \in ColorArrays }
  \cup { OtherValue }

\* the arrays given to Pixel.from: [code, fg, bg]
PixelArrays ==
  { [code |-> Num(72), fg |-> f, bg |-> b] :
      f \in { StringOf(<<"a", "0", "f", "f", "a", "0">>), ArrayOf(<<10, 15, 16>>),
              StringOf(<<"z", "z", "0", "0", "0", "0">>) },
      b \in { StringOf(<<"2", "0", "2", "0", "2", "0">>), ArrayOf(<<255, 0, 255>>),
              OtherValue } }

InitColor ==
  /\ heap = EmptyHeap
  /\ image = NoImage
  /\ buffer = NoBuffer
  /\ result = [op |-> "none"]
  /\ trace = <<>>
  /\ \/ \E r \in ChannelArgs, g \in ChannelArgs, b \in ChannelArgs :
          input = [kind |-> "rgb", rgb |-> <<r, g, b>>]
     \/ \E v \in ColorValues : input = [kind |-> "value", value |-> v]
     \/ \E a \in PixelArrays : input = [kind |-> "pixel", array |-> a]

\* c = new Color(r, g, b)
ConstructColor ==
  /\ input.kind = "rgb"
  /\ trace = <<>>
  /\ LET c == NewColor(heap, input.rgb[1], input.rgb[2], input.rgb[3])
     IN /\ heap' = c.heap
        /\ result' = [op |-> "new Color", val |-> c.val, err |-> c.err]
  /\ trace' = <<"new Color">>
  /\ UNCHANGED <<image, buffer, input>>

\* c.hex
GetHex ==
  /\ trace = <<"new Color">>
  /\ result.err = ""
  /\ result' = [op |-> "hex", val |-> ColorHex(heap, 1), err |-> ""]
  /\ trace' = Append(trace, "hex")
  /\ UNCHANGED <<heap, image, buffer, input>>

\* Color.from(value): of the value the caller started from, of the colour it
\* has made, or of the string it has just read
ColorFromCall ==
  /\ \/ input.kind = "value" /\ trace = <<>>
     \/ trace = <<"new Color">> /\ result.err = ""
     \/ trace = <<"new Color", "hex">>
  /\ LET arg == IF input.kind = "value" THEN input.value
                ELSE IF result.op = "hex" THEN StringOf(result.val)
                ELSE ColorRef(1)
         c == ColorFromAny(heap, arg)
     IN /\ heap' = c.heap
        /\ result' = [op |-> "Color.from", val |-> c.val, err |-> c.err]
  /\ trace' = Append(trace, "Color.from")
  /\ UNCHANGED <<image, buffer, input>>

\* c.r = value (and g, b)
SetChannelCall ==
  /\ trace = <<"new Color">>
  /\ result.err = ""
  /\ \E channel \in { "r", "g", "b" }, value \in ChannelArgs :
       LET c == SetChannel(heap, 1, channel, value)
       IN /\ heap' = c.heap
          /\ result' = [op |-> "set", channel |-> channel, value |-> value,
                        err |-> c.err]
  /\ trace' = Append(trace, "set")
  /\ UNCHANGED <<image, buffer, input>>

\* c.hex = value
SetHexCall ==
  /\ trace = <<"new Color">>
  /\ result.err = ""
  /\ \E v \in ColorValues :
       /\ heap' = SetHex(heap, 1, v)
       /\ result' = [op |-> "set hex", value |-> v, err |-> ""]
  /\ trace' = Append(trace, "set hex")
  /\ UNCHANGED <<image, buffer, input>>

\* Pixel.from([code, fg, bg])
PixelFromArrayCall ==
  /\ input.kind = "pixel"
  /\ trace = <<>>
  /\ LET p == PixelFromArray(heap, input.array.code, input.array.fg, input.array.bg)
     IN /\ heap' = p.heap
        /\ result' = [op |-> "Pixel.from", val |-> p.val, err |-> p.err]
  /\ trace' = <<"Pixel.from">>
  /\ UNCHANGED <<image, buffer, input>>

NextColor ==
  \/ ConstructColor
  \/ GetHex
  \/ ColorFromCall
  \/ SetChannelCall
  \/ SetHexCall
  \/ PixelFromArrayCall

SpecColor == InitColor /\ [][NextColor]_vars

-----------------------------------------------------------------------------
(* Claims about colours *)

InByteRange(v) == v \in 0..255

ColorInRange(c) == InByteRange(c.r) /\ InByteRange(c.g) /\ InByteRange(c.b)

RgbOf(c) == <<c.r, c.g, c.b>>

\* C12: every Color that exists has its three channels in 0..255: the
\* constructor and the setters of r, g and b raise an error for a value out of
\* range, and a Color whose setter has raised is as it was before the call.
C12_ChannelInvariant ==
  /\ \A c \in 1..Len(heap.colors) : ColorInRange(heap.colors[c])
  /\ (result.op = "new Color" /\ \E i \in 1..3 : ~InByteRange(input.rgb[i]))
       => result.err # "" /\ heap.colors = <<>>
  /\ (result.op = "set" /\ ~InByteRange(result.value))
       => result.err # "" /\ RgbOf(heap.colors[1]) = input.rgb

\* an optional '#' and then exactly six characters of 0-9, a-f, A-F
SixHexDigits(str) ==
  LET HexChars == { HexDigits[i] : i \in 1..16 } \cup { UpperHexDigits[i] : i \in 1..16 }
      Six(body) == Len(body) = 6 /\ \A i \in 1..6 : body[i] \in HexChars
  IN \/ Six(str)
     \/ Len(str) = 7 /\ str[1] = "#" /\ Six(Tail(str))

\* C14: the hex string of a valid Color is six lower-case hex digits, two for
\* each channel, the first a 0 when the channel is below 16; Color.from of
\* that string is a Color with the same channels; and Color.from of a string
\* that is not an optional '#' and six hex digits is null, without an error.
C14_HexRoundTrip ==
  /\ result.op = "hex"
       => /\ Len(result.val) = 6
          /\ \A k \in 1..3 :
               /\ result.val[2 * k - 1] = HexDigits[(input.rgb[k] \div 16) + 1]
               /\ result.val[2 * k] = HexDigits[(input.rgb[k] % 16) + 1]
  /\ trace = <<"new Color", "hex", "Color.from">>
       => /\ result.err = ""
          /\ result.val = 2
          /\ RgbOf(heap.colors[2]) = input.rgb
          /\ RgbOf(heap.colors[1]) = input.rgb
  /\ (result.op = "Color.from" /\ input.kind = "value"
      /\ input.value.type = "string" /\ ~SixHexDigits(input.value.chars))
       => result.val = Null /\ result.err = "" /\ heap = EmptyHeap

\* the colour (10, 15, 16) has come back from its string "0a0f10"
C14_Witness ==
  /\ trace = <<"new Color", "hex", "Color.from">>
  /\ input.rgb = <<10, 15, 16>>
  /\ RgbOf(heap.colors[2]) = <<10, 15, 16>>

IsTriple(v) == v.type = "array" /\ Len(v.items) = 3

TripleInRange(v) == \A i \in 1..3 : InByteRange(v.items[i])

\* C15: Color.from of an array of three integers in 0..255 is a Color with
\* those channels, and Pixel.from([code, [r,g,b], [r,g,b]]) is a Pixel with
\* those colours; a triple with a channel out of range is rejected as
\* new Color rejects it, with an Error.
C15_ColorFromTriple ==
  /\ (result.op = "Color.from" /\ input.kind = "value" /\ IsTriple(input.value))
       => IF TripleInRange(input.value)
          THEN /\ result.err = ""
               /\ result.val = 1
               /\ RgbOf(heap.colors[1]) = input.value.items
          ELSE result.err = "Error"
  /\ (result.op = "Pixel.from" /\ IsTriple(input.array.fg) /\ IsTriple(input.array.bg))
       => /\ result.err = ""
          /\ IsPixel(heap, result.val)
          /\ RgbOf(PixelValue(heap, result.val).fg) = input.array.fg.items
          /\ RgbOf(PixelValue(heap, result.val).bg) = input.array.bg.items

-----------------------------------------------------------------------------
(* Pixels: a caller that makes a pixel, clones it, changes its background,   *)
(* and exports and reads back an image that holds it                         *)

\* the colours the caller has made: a foreground and three backgrounds
PixelColors == <<<<0, 0, 0>>, <<255, 0, 255>>, <<255, 0, 0>>, <<32, 32, 32>>>>

RECURSIVE MkColors(_, _, _)
MkColors(h, values, i) ==
  IF i > Len(values) THEN h
  ELSE MkColors(NewColor(h, values[i][1], values[i][2], values[i][3]).heap,
                values, i + 1)

\* what new Pixel is given for char: -1, 0, 72, 2^32 - 1, 2^32, 1.5, a string,
\* nothing
GlyphArgs ==
  { NumberOf(Num(-1)), NumberOf(Num(0)), NumberOf(Num(72)),
    NumberOf(U32(65535, 65535)), NumberOf(U32(65536, 0)),
    Fraction, StringOf(<<"H">>), OtherValue }

ForegroundArgs == { ColorRef(1), StringOf(<<"0", "0", "0", "0", "0", "0">>) }

BackgroundArgs == { ColorRef(2), ColorRef(3), ColorRef(4), OtherValue }

InitPixel ==
  /\ heap = MkColors(EmptyHeap, PixelColors, 1)
  /\ image = NoImage
  /\ buffer = NoBuffer
  /\ result = [op |-> "none"]
  /\ trace = <<>>
  /\ \E char \in GlyphArgs, fg \in ForegroundArgs, bg \in BackgroundArgs :
       input = [kind |-> "new Pixel", char |-> char, fg |-> fg, bg |-> bg]

\* p = new Pixel(char, fg, bg)
ConstructPixel ==
  /\ trace = <<>>
  /\ LET p == NewPixelAny(heap, input.char, input.fg, input.bg)
     IN /\ heap' = p.heap
        /\ result' = [op |-> "new Pixel", val |-> p.val, err |-> p.err]
  /\ trace' = <<"new Pixel">>
  /\ UNCHANGED <<image, buffer, input>>

\* the caller has its pixel and has done nothing else with it
HasPixel == trace = <<"new Pixel">> /\ result.err = ""

\* Pixel.from(p)
PixelFromCall ==
  /\ HasPixel
  /\ LET q == PixelFrom(heap, 1)
     IN /\ heap' = q.heap
        /\ result' = [op |-> "Pixel.from", val |-> q.val, err |-> q.err]
  /\ trace' = Append(trace, "Pixel.from")
  /\ UNCHANGED <<image, buffer, input>>

\* p.bg.r = value (and g, b), p the pixel or its clone
SetBackgroundChannel ==
  /\ HasPixel \/ trace = <<"new Pixel", "Pixel.from">>
  /\ \E channel \in { "r", "g", "b" }, value \in { 0, 255 } :
       LET c == SetChannel(heap, heap.pixels[Len(heap.pixels)].bg, channel, value)
       IN /\ heap' = c.heap
          /\ result' = [op |-> "set", channel |-> channel, value |-> value,
                        err |-> c.err]
  /\ trace' = Append(trace, "set")
  /\ UNCHANGED <<image, buffer, input>>

\* p.bg.hex = value
SetBackgroundHex ==
  /\ HasPixel
  /\ \E str \in { <<"f", "f", "0", "0", "f", "f">>, <<"2", "0", "2", "0", "2", "0">> } :
       /\ heap' = SetHex(heap, heap.pixels[1].bg, StringOf(str))
       /\ result' = [op |-> "set hex", value |-> StringOf(str), err |-> ""]
  /\ trace' = Append(trace, "set hex")
  /\ UNCHANGED <<image, buffer, input>>

\* p.bg = c, c another colour of the caller
ReplaceBackground ==
  /\ HasPixel
  /\ \E c \in 2..4 :
       /\ heap' = [heap EXCEPT !.pixels[1].bg = c]
       /\ result' = [op |-> "bg", value |-> ColorRef(c), err |-> ""]
  /\ trace' = Append(trace, "bg")
  /\ UNCHANGED <<image, buffer, input>>

\* an image of one layer of one slot that holds p, and await toBuffer(image)
ExportPixel ==
  /\ HasPixel
  /\ LET layer == LayerSet(heap, NewLayer(1, 1), N(0), N(0), 1).layer
         img == [version |-> Num(0), layers |-> <<layer>>, isImage |-> TRUE]
         p == toBuffer(heap, img)
     IN /\ image' = img
        /\ buffer' = IF p.state = "resolved" THEN p.value ELSE buffer
        /\ result' = [op |-> "toBuffer", state |-> p.state,
                      err |-> IF p.state = "resolved" THEN "" ELSE p.reason]
  /\ trace' = Append(trace, "toBuffer")
  /\ UNCHANGED <<heap, input>>

\* await fromBuffer(buffer), of the stream just exported
ImportPixel ==
  /\ trace = <<"new Pixel", "toBuffer">>
  /\ result.err = ""
  /\ LET p == fromBuffer(heap, buffer)
     IN /\ image' = IF p.state = "resolved" THEN p.value ELSE image
        /\ heap' = IF p.state = "resolved" THEN p.heap ELSE heap
        /\ result' = [op |-> "fromBuffer", state |-> p.state,
                      err |-> IF p.state = "resolved" THEN "" ELSE p.reason]
  /\ trace' = Append(trace, "fromBuffer")
  /\ UNCHANGED <<buffer, input>>

NextPixel ==
  \/ ConstructPixel
  \/ PixelFromCall
  \/ SetBackgroundChannel
  \/ SetBackgroundHex
  \/ ReplaceBackground
  \/ ExportPixel
  \/ ImportPixel

SpecPixel == InitPixel /\ [][NextPixel]_vars

-----------------------------------------------------------------------------
(* Claims about pixels *)

\* C13: for every Pixel that exists, transparent is true exactly when its
\* background is (255, 0, 255): after construction, after Pixel.from, after a
\* decode, and after any change of the background (a channel or the hex
\* string of bg assigned, or bg replaced).
C13_TransparentInvariant ==
  \A p \in 1..Len(heap.pixels) :
    heap.pixels[p].transparent
      <=> RgbOf(heap.colors[heap.pixels[p].bg]) = <<255, 0, 255>>

\* an integer in 0 .. 2^32 - 1
GlyphInField(char) ==
  /\ char.type = "number"
  /\ char.int
  /\ char.n.hi \in 0..65535
  /\ char.n.lo \in 0..65535

\* C16: new Pixel(glyph, fg, bg) raises an error when glyph is not an integer
\* in 0 .. 2^32 - 1 or fg or bg is not a Color, and succeeds otherwise; so
\* the glyph of every Pixel that exists fits the 4-byte field and the encoder
\* writes it.
C16_PixelValidation ==
  /\ result.op = "new Pixel"
       => (result.err = ""
             <=> /\ GlyphInField(input.char)
                 /\ input.fg.type = "Color"
                 /\ input.bg.type = "Color")
  /\ \A p \in 1..Len(heap.pixels) :
       GlyphInField(NumberOf(heap.pixels[p].asciiCode))
  /\ result.op = "toBuffer" => result.state = "resolved"

-----------------------------------------------------------------------------
(* Layers: a caller that holds a layer, fills it or copies it, and then      *)
(* changes one of the pixels it can reach                                    *)

\* layer.fill(pixel): for y, for x: this.set(x, y, pixel); the pixel is
\* Pixel.TRANSPARENT when none is given
LayerFill(h, layer, pixel) ==
  LET px == IF pixel = Undefined THEN TRANSPARENT ELSE pixel
      RECURSIVE Fill(_, _, _)
      Fill(res, x, y) ==
        IF y >= res.height THEN res
        ELSE IF x >= res.width THEN Fill(res, 0, y + 1)
        ELSE Fill(LayerSet(h, res, N(x), N(y), px).layer, x + 1, y)
  IN Fill(layer, 0, 0)

\* the values Layer.from is given
LayerValue(layer) == [type |-> "Layer", layer |-> layer]

\* Layer.from(layer), layer any value: [isLayer, layer]
LayerFromAny(h, v) ==
  IF v.type = "Layer" THEN [isLayer |-> TRUE, layer |-> LayerFrom(h, v.layer)]
  ELSE [isLayer |-> FALSE, layer |-> NewLayer(0, 0)]

\* the layers the caller starts with: slots unset, or set to pixels of their
\* own
StartLayers ==
  LayerDescs({ d \in Dims(MaxCells) : d[1] * d[2] > 0 }, <<PixelA>>, TRUE)

InitLayer ==
  /\ \E desc \in StartLayers :
       LET m == MkLayers(CallerHeap, <<desc>>, 1)
       IN /\ heap = m.heap
          /\ image = [version |-> Num(0), layers |-> m.layers, isImage |-> TRUE]
          /\ input = [kind |-> "layer", image |-> image, stream |-> NoBuffer]
  /\ buffer = NoBuffer
  /\ result = [op |-> "none"]
  /\ trace = <<>>

\* layer.fill(pixel), layer.fill()
FillCall ==
  /\ trace = <<>>
  /\ \E pixel \in { Undefined, CallerPixel, Null } :
       /\ image' = [image EXCEPT !.layers[1] = LayerFill(heap, @, pixel)]
       /\ result' = [op |-> "fill", pixel |-> pixel, val |-> N(0)]
  /\ trace' = <<"fill">>
  /\ UNCHANGED <<heap, buffer, input>>

\* copy = Layer.from(value): the caller keeps the copy next to the layer
LayerFromCall ==
  /\ trace = <<>>
  /\ \E v \in { LayerValue(image.layers[1]), OtherValue } :
       LET r == LayerFromAny(heap, v)
       IN /\ image' = IF r.isLayer
                       THEN [image EXCEPT !.layers = Append(@, r.layer)]
                       ELSE image
          /\ result' = [op |-> "Layer.from", arg |-> v.type,
                        val |-> IF r.isLayer THEN N(1) ELSE N(Null)]
  /\ trace' = <<"Layer.from">>
  /\ UNCHANGED <<heap, buffer, input>>

\* q.asciiCode = 1, q.fg.b = 255 or q.bg.r = 0, q a pixel the caller holds or
\* has got from a layer
MutatePixel ==
  /\ Len(trace) = 1
  /\ \E q \in 1..Len(heap.pixels) :
       /\ \/ heap' = [heap EXCEPT !.pixels[q].asciiCode = Num(1)]
          \/ \E w \in ChannelWrites :
               heap' = SetChannel(heap, heap.pixels[q][w[1]], w[2], w[3]).heap
       /\ result' = [op |-> "mutate", target |-> q]
  /\ trace' = Append(trace, "mutate")
  /\ UNCHANGED <<image, buffer, input>>

NextLayer == FillCall \/ LayerFromCall \/ MutatePixel

SpecLayer == InitLayer /\ [][NextLayer]_vars

-----------------------------------------------------------------------------
(* Claims about fill and Layer.from *)

\* the slots of layer k that hold the object q
SlotsHolding(img, k, q) ==
  { s \in Slots(img) : s[1] = k /\ img.layers[k].raster[s[2]] = q }

\* glyph and colours of the pixel p
Appearance(h, p) ==
  <<PixelValue(h, p).asciiCode, PixelValue(h, p).fg, PixelValue(h, p).bg>>

\* C17: fill(p) sets every slot of the layer to a pixel with p's values, and
\* fill() to one with the values of Pixel.TRANSPARENT, and returns the layer;
\* each slot holds a copy of its own: after the fill, a change of p leaves
\* every slot as it was, and a change of the pixel at one coordinate leaves
\* the pixels at all other coordinates as they were.
C17_FillStoresCopies ==
  [][/\ (result'.op = "fill" /\ result'.pixel # Null)
         => /\ result'.val = N(0)
            /\ \A s \in Slots(image') :
                 /\ IsPixel(heap', image'.layers[s[1]].raster[s[2]])
                 /\ Appearance(heap', image'.layers[s[1]].raster[s[2]])
                      = Appearance(heap, IF result'.pixel = Undefined
                                         THEN TRANSPARENT ELSE result'.pixel)
     /\ (result'.op = "mutate" /\ trace = <<"fill">> /\ result.pixel # Null)
         => LET q == result'.target
                p == IF result.pixel = Undefined THEN TRANSPARENT ELSE result.pixel
            IN /\ q = p => \A s \in Slots(image) : SlotUnchanged(s)
               /\ \A s \in SlotsHolding(image, 1, q) :
                    \A t \in Slots(image) \ {s} : SlotUnchanged(t)]_vars

\* C18: Layer.from(layer) is a new Layer of the same width and height whose
\* set slots hold pixels with the values of the original's, and null for a
\* value that is not a Layer; it is a deep copy: afterwards a change of a
\* pixel of the copy leaves every slot of the original as it was, and a
\* change of a pixel of the original leaves every slot of the copy as it was.
C18_LayerFromDeepCopy ==
  [][/\ (result'.op = "Layer.from" /\ result'.arg = "Layer")
         => /\ Len(image'.layers) = 2
            /\ image'.layers[1] = image.layers[1]
            /\ image'.layers[2].width = image.layers[1].width
            /\ image'.layers[2].height = image.layers[1].height
            /\ \A i \in 1..Len(image.layers[1].raster) :
                 LET a == image.layers[1].raster[i]
                     b == image'.layers[2].raster[i]
                 IN IF IsPixel(heap, a)
                    THEN IsPixel(heap', b) /\ Appearance(heap', b) = Appearance(heap, a)
                    ELSE ~IsPixel(heap', b)
     /\ (result'.op = "Layer.from" /\ result'.arg # "Layer")
         => result'.val = N(Null) /\ image' = image
     /\ (result'.op = "mutate" /\ trace = <<"Layer.from">> /\ Len(image.layers) = 2)
         => LET q == result'.target
            IN /\ SlotsHolding(image, 2, q) # {}
                    => \A s \in Slots(image) : s[1] = 1 => SlotUnchanged(s)
               /\ SlotsHolding(image, 1, q) # {}
                    => \A s \in Slots(image) : s[1] = 2 => SlotUnchanged(s)]_vars

-----------------------------------------------------------------------------
(* The layout of the payload: the codec on layers that are not square, every *)
(* pixel and every pixel record different from the others                    *)

\* sequences of one or two layer sizes, LayoutCells slots at most together
LayoutShapes ==
  LET sizes == { d \in (1..LayoutDim) \X (1..LayoutDim) : d[1] * d[2] <= LayoutCells }
  IN { <<d>> : d \in sizes }
     \cup { p \in sizes \X sizes :
              p[1][1] * p[1][2] + p[2][1] * p[2][2] <= LayoutCells }

\* the pixel of layer l at (x, y)
SlotPixel(l, x, y) ==
  [asciiCode |-> Num(100 * l + 10 * x + y), fg |-> <<x, y, l>>, bg |-> <<y, x, 255>>]

\* the layer of a size, slot (x, y) set to SlotPixel(l, x, y)
LayoutDesc(l, d) ==
  [width |-> d[1], height |-> d[2],
   pool |-> [i \in 1..(d[1] * d[2]) |-> SlotPixel(l, (i - 1) % d[1], (i - 1) \div d[1])],
   cells |-> [i \in 1..(d[1] * d[2]) |-> i]]

\* the layer record of a size, the k-th pixel record holding k
LayoutRecord(l, d) ==
  RawWord(d[1]) \o RawWord(d[2])
  \o Concat([k \in 1..(d[1] * d[2]) |-> <<k - 1, l, 0, 0, k - 1, 1, 2, 3, 4, 5>>])

InitLayout ==
  /\ \E shape \in LayoutShapes, v \in 0..1 :
       \/ LET m == MkLayers(EmptyHeap,
                            [l \in 1..Len(shape) |-> LayoutDesc(l, shape[l])], 1)
              img == [version |-> Num(v), layers |-> m.layers, isImage |-> TRUE]
          IN /\ heap = m.heap
             /\ image = img
             /\ buffer = NoBuffer
             /\ input = [kind |-> "image", image |-> img, stream |-> NoBuffer]
       \/ LET str == [format |-> "gzip",
                      data |-> RawWord(v) \o RawWord(Len(shape))
                               \o Concat([l \in 1..Len(shape) |->
                                            LayoutRecord(l, shape[l])])]
          IN /\ heap = EmptyHeap
             /\ image = NoImage
             /\ buffer = str
             /\ input = [kind |-> "stream", image |-> NoImage, stream |-> str]
  /\ result = [state |-> "none"]
  /\ trace = <<>>

SpecLayout == InitLayout /\ [][NextCodec]_vars

-----------------------------------------------------------------------------
(* Claims about the layout *)

RECURSIVE LayerOffset(_, _)
\* the offset of the l-th layer record: 8, and 8 + 10 * width * height for
\* every layer before it
LayerOffset(layers, l) ==
  IF l = 1 THEN 8
  ELSE LayerOffset(layers, l - 1)
       + 8 + 10 * layers[l - 1].width * layers[l - 1].height

\* the ten bytes of a pixel: the glyph, least significant byte first, then
\* the foreground and the background
RecordBytes(h, p) ==
  LET v == PixelValue(h, p)
  IN <<v.asciiCode.lo % 256, v.asciiCode.lo \div 256,
       v.asciiCode.hi % 256, v.asciiCode.hi \div 256,
       v.fg.r, v.fg.g, v.fg.b, v.bg.r, v.bg.g, v.bg.b>>

\* the payload b holds the image: version and layer count in bytes 0-3 and
\* 4-7, and for the layer record at offset o the record of pixel (x, y), the
\* pixel at raster index x + width*y, at o + 8 + 10 * (x*height + y)
LayoutAgrees(h, img, b) ==
  /\ Len(b) = LayerOffset(img.layers, Len(img.layers) + 1)
  /\ Word(b, 0) = ToInt(img.version)
  /\ Word(b, 4) = Len(img.layers)
  /\ \A l \in 1..Len(img.layers) :
       LET layer == img.layers[l]
           o == LayerOffset(img.layers, l)
       IN /\ Word(b, o) = layer.width
          /\ Word(b, o + 4) = layer.height
          /\ \A x \in 0..(layer.width - 1), y \in 0..(layer.height - 1) :
               LET p == layer.raster[x + layer.width * y + 1]
                   at == o + 8 + 10 * (x * layer.height + y)
               IN /\ IsPixel(h, p)
                  /\ SubSeq(b, at + 1, at + 10) = RecordBytes(h, p)

\* C19: the payload and the image correspond by the wire layout, after an
\* encode and after a decode, for every width and height: bytes 0-3 are the
\* version, 4-7 the layer count, and in the layer record at offset o the
\* record of the pixel at raster index x + width*y is the ten bytes at
\* o + 8 + 10 * (x*height + y), so the k-th record is pixel
\* (k div height, k mod height).
C19_WireLayout ==
  trace # <<>>
    => /\ result.state = "resolved"
       /\ LayoutAgrees(heap, image, unzip(buffer).data)

\* a layer 2 wide and 3 high has been decoded: its pixel (1, 0) is record 3
C19_Witness ==
  /\ input.kind = "stream"
  /\ trace = <<"fromBuffer">>
  /\ image.layers[1].width = 2
  /\ image.layers[1].height = 3
  /\ PixelValue(heap, LayerGet(image.layers[1], N(1), N(0))).asciiCode.lo % 256 = 3

AllSlotsSet(h, img) ==
  \A l \in 1..Len(img.layers) : \A i \in 1..Len(img.layers[l].raster) :
    IsPixel(h, img.layers[l].raster[i])

\* C20: for an image whose layers have every slot set, the offset after the
\* encoder's last write is the size computed before the first,
\* 8 + the sum over the layers of 8 + 10 * width * height: the encoder does
\* not fail with its internal error and the payload has exactly that length.
C20_EncodedSize ==
  (input.kind = "image" /\ AllSlotsSet(heap, input.image) /\ trace # <<>>)
    => LET w == writeInflatedBuffer(heap, input.image)
           expected == LayerOffset(input.image.layers, Len(input.image.layers) + 1)
       IN /\ w.err = ""
          /\ w.size = expected
          /\ w.offset = expected
          /\ Len(w.res) = expected
          /\ trace[1] = "toBuffer"
          /\ Len(trace) = 1 => result.state = "resolved"
                                /\ Len(unzip(buffer).data) = expected

\* an image of two layers, of 2x1 and 1x2 pixels, has been encoded in 64 bytes
C20_Witness ==
  /\ input.kind = "image"
  /\ trace = <<"toBuffer">>
  /\ Len(input.image.layers) = 2
  /\ input.image.layers[1].width = 2
  /\ input.image.layers[2].height = 2
  /\ Len(buffer.data) = 64

\* the payload ends before the header, or before the end of the layer records
\* its layer count and its layer sizes announce
Insufficient(b) ==
  \/ Len(b) < 8
  \/ LayersEnd(b, 8, Word(b, 4)) = -1
  \/ LayersEnd(b, 8, Word(b, 4)) > Len(b)

\* C21: a payload shorter than 8 bytes, or shorter than its layer count and
\* layer sizes require, makes fromBuffer end with an error: the promise is
\* rejected and no Image is delivered.
C21_DecodeFailsCleanly ==
  (/\ input.kind = "stream"
   /\ ~unzip(input.stream).err
   /\ Insufficient(unzip(input.stream).data)
   /\ trace # <<>>
   /\ trace[1] = "fromBuffer")
  => /\ image = NoImage
     /\ Len(trace) = 1 => result.state = "rejected" /\ heap = EmptyHeap

\* a payload cut in the last byte of its only pixel record has been refused
C21_Witness ==
  /\ input.kind = "stream"
  /\ trace = <<"fromBuffer">>
  /\ Len(input.stream.data) = 25
  /\ Word(input.stream.data, 4) = 1
  /\ Word(input.stream.data, 8) = 1
  /\ Word(input.stream.data, 12) = 1
  /\ result.state = "rejected"

\* C24: mergeLayers never raises an exception: whatever the image (layers
\* with unset slots, layers smaller or larger than the first) and whatever
\* the selection, it returns null or a Layer of the first layer's width and
\* height.
C24_MergeNeverThrows ==
  trace = <<"mergeLayers">>
    => /\ result.state = "returned"
       /\ \/ result.val.kind = "null"
          \/ /\ result.val.kind = "Layer"
             /\ result.val.layer.width = image.layers[1].width
             /\ result.val.layer.height = image.layers[1].height

\* the values of the constant Pixel.TRANSPARENT as the module defines it:
\* glyph 32, foreground (0, 0, 0), background (255, 0, 255)
TransparentConstant(h) ==
  /\ PixelValue(h, TRANSPARENT).asciiCode = Num(32)
  /\ PixelValue(h, TRANSPARENT).fg = [r |-> 0, g |-> 0, b |-> 0]
  /\ PixelValue(h, TRANSPARENT).bg = [r |-> 255, g |-> 0, b |-> 255]

\* C25: Pixel.TRANSPARENT keeps its values: a fill, a Layer.from, and a change
\* of a pixel that a layer's slot holds (a pixel obtained through get) each
\* leave the constant at glyph 32, foreground (0, 0, 0) and background
\* (255, 0, 255).
C25_TransparentConstant ==
  [][(\/ result'.op \in { "fill", "Layer.from" }
      \/ /\ result'.op = "mutate"
         /\ \E k \in 1..Len(image.layers) :
              SlotsHolding(image, k, result'.target) # {})
       => (TransparentConstant(heap) => TransparentConstant(heap'))]_vars

-----------------------------------------------------------------------------
(* The decoder of the original rexpaintjs, which the fork replaces: numbers  *)
(* are signed here, and a pixel is a plain object                            *)

\* buffer.readInt32LE(offset): the signed value of the four bytes
readInt32LE(buf, offset) ==
  IF offset + 4 > Len(buf)
  THEN [val |-> 0, err |-> "RangeError"]
  ELSE LET hi == buf[offset + 3] + 256 * buf[offset + 4]
           lo == buf[offset + 1] + 256 * buf[offset + 2]
       IN [val |-> IF hi >= 32768 THEN (hi - 65536) * 65536 + lo
                   ELSE hi * 65536 + lo,
           err |-> ""]

\* buffer.fixedReadUint8(offset): readInt8 with the sign cleared
fixedReadUint8(buf, offset) ==
  IF offset + 1 > Len(buf)
  THEN [val |-> 0, err |-> "RangeError"]
  ELSE LET v == IF buf[offset + 1] >= 128 THEN buf[offset + 1] - 256
                ELSE buf[offset + 1]
       IN [val |-> IF v < 0 THEN 256 + v ELSE v, err |-> ""]

\* a slot of Array(n) that was never assigned
Hole == [set |-> FALSE]

\* the pixel record at the offset: asciiCode, fg, bg, transparent
OriginalReadPixel(buf, st, x, y) ==
  LET code == readInt32LE(buf, st.offset)
      b == [k \in 1..6 |-> fixedReadUint8(buf, st.offset + 3 + k)]
  IN IF code.err # "" \/ \E k \in 1..6 : b[k].err # ""
     THEN [st EXCEPT !.err = "RangeError"]
     ELSE [st EXCEPT
             !.raster[x * st.height + y + 1] =
               [set |-> TRUE, asciiCode |-> code.val,
                fg |-> [r |-> b[1].val, g |-> b[2].val, b |-> b[3].val],
                bg |-> [r |-> b[4].val, g |-> b[5].val, b |-> b[6].val],
                transparent |-> b[4].val = 255 /\ b[5].val = 0 /\ b[6].val = 255],
             !.offset = st.offset + 10]

RECURSIVE OriginalReadPixels(_, _, _, _)
\* for y < height: for x < width: the next record goes to
\* raster[x * height + y]
OriginalReadPixels(buf, st, x, y) ==
  IF st.err # "" \/ y >= st.height THEN st
  ELSE IF x >= st.width THEN OriginalReadPixels(buf, st, 0, y + 1)
  ELSE OriginalReadPixels(buf, OriginalReadPixel(buf, st, x, y), x + 1, y)

RECURSIVE OriginalReadLayers(_, _, _, _)
\* for i < numLayers: width, height, then the pixel records
OriginalReadLayers(buf, st, i, numLayers) ==
  IF st.err # "" \/ i >= numLayers THEN st
  ELSE LET width == readInt32LE(buf, st.offset)
           height == readInt32LE(buf, st.offset + 4)
       IN IF width.err # "" \/ height.err # ""
          THEN [st EXCEPT !.err = "RangeError"]
          \* Array(n) with n < 0 throws
          ELSE IF width.val * height.val < 0
          THEN [st EXCEPT !.err = "RangeError"]
          ELSE LET n == IF width.val < 0 THEN 0 ELSE width.val * height.val
                   s1 == OriginalReadPixels(buf,
                           [st EXCEPT !.width = width.val,
                                      !.height = height.val,
                                      !.raster = [k \in 1..n |-> Hole],
                                      !.offset = st.offset + 8], 0, 0)
               IN OriginalReadLayers(buf,
                    [s1 EXCEPT !.layers =
                       Append(@, [width |-> s1.width, height |-> s1.height,
                                  raster |-> s1.raster])],
                    i + 1, numLayers)

\* loadInflatedBuffer(buffer) of the original: {version, layers}, or the
\* error thrown
OriginalLoadInflatedBuffer(buf) ==
  LET version == readInt32LE(buf, 0)
      numLayers == readInt32LE(buf, 4)
  IN IF version.err # "" \/ numLayers.err # ""
     THEN [err |-> "RangeError", version |-> 0, layers |-> <<>>]
     ELSE LET st == OriginalReadLayers(buf,
                      [layers |-> <<>>, width |-> 0, height |-> 0,
                       raster |-> <<>>, offset |-> 8, err |-> ""],
                      0, numLayers.val)
          IN [err |-> st.err, version |-> version.val, layers |-> st.layers]

\* the pixel object o of the original and the slot ref of the fork hold the
\* same glyph, colours and transparency, or are both unset
SameAsOriginal(o, h, ref) ==
  IF o.set
  THEN /\ IsPixel(h, ref)
       /\ o.asciiCode >= 0
       /\ Num(o.asciiCode) = PixelValue(h, ref).asciiCode
       /\ o.fg = PixelValue(h, ref).fg
       /\ o.bg = PixelValue(h, ref).bg
       /\ o.transparent = PixelValue(h, ref).transparent
  ELSE ~IsPixel(h, ref)

\* C23: the fork's decoder is a drop-in replacement of the original's: for
\* every payload the fork decodes, the original decodes it to the same number
\* of layers, each of the same width and height, and at every raster index the
\* two rasters hold a pixel of the same asciiCode, fg, bg and transparent,
\* whatever the widths and heights.
C23_DecoderRefinesOriginal ==
  (/\ trace # <<>>
   /\ trace[Len(trace)] = "fromBuffer"
   /\ result.state = "resolved")
    => LET o == OriginalLoadInflatedBuffer(unzip(buffer).data)
       IN /\ o.err = ""
          /\ Len(o.layers) = Len(image.layers)
          /\ \A l \in 1..Len(o.layers) :
               /\ o.layers[l].width = image.layers[l].width
               /\ o.layers[l].height = image.layers[l].height
               /\ Len(o.layers[l].raster) = Len(image.layers[l].raster)
               /\ \A i \in 1..Len(o.layers[l].raster) :
                    SameAsOriginal(o.layers[l].raster[i], heap,
                              image.layers[l].raster[i])

-----------------------------------------------------------------------------
(* A caller that merges the layers of an image and then changes a pixel: one *)
(* of the image's, or one of the layer mergeLayers returned                  *)

IndepCells == 2

RECURSIVE CellsOf(_)
\* the slots of a sequence of layers, all together
CellsOf(descs) ==
  IF descs = <<>> THEN 0
  ELSE Head(descs).width * Head(descs).height + CellsOf(Tail(descs))

InitIndep ==
  /\ \E descs \in { ds \in MergeImages : CellsOf(ds) <= IndepCells } :
       LET m == MkLayers(EmptyHeap, descs, 1)
           img == [version |-> Num(0), layers |-> m.layers, isImage |-> TRUE]
       IN /\ heap = m.heap
          /\ image = img
          /\ input = [kind |-> "merge", image |-> img, stream |-> NoBuffer]
  /\ buffer = NoBuffer
  /\ result = [state |-> "none"]
  /\ trace = <<>>

\* q.asciiCode = 1, q.fg.r = 0 or q.bg.b = 255, q a pixel of the image or of
\* the merged layer
MutateMerged ==
  /\ trace = <<"mergeLayers">>
  /\ \E q \in 1..Len(heap.pixels) :
       /\ \/ heap' = [heap EXCEPT !.pixels[q].asciiCode = Num(1)]
          \/ \E w \in ChannelWrites :
               heap' = SetChannel(heap, heap.pixels[q][w[1]], w[2], w[3]).heap
       /\ result' = [state |-> "mutated", target |-> q, merged |-> result]
  /\ trace' = Append(trace, "mutate")
  /\ UNCHANGED <<image, buffer, input>>

NextIndep == MergeLayers \/ MutateMerged

SpecIndep == InitIndep /\ [][NextIndep]_vars

\* the slots of a layer that hold the object q
HeldBy(layer, q) == { i \in 1..Len(layer.raster) : layer.raster[i] = q }

\* C26: mergeLayers only reads the image: the call leaves the layers and every
\* pixel of the image as they were; and the layer it returns shares nothing
\* with the image: afterwards a change of a pixel of the returned layer leaves
\* every slot of the image as it was, and a change of a pixel of the image
\* leaves every pixel of the returned layer as it was.
C26_MergeIndependent ==
  [][/\ (trace = <<>> /\ trace' = <<"mergeLayers">>)
         => /\ image' = image
            /\ Len(heap'.pixels) >= Len(heap.pixels)
            /\ \A p \in 1..Len(heap.pixels) :
                 PixelValue(heap', p) = PixelValue(heap, p)
     /\ (/\ result'.state = "mutated"
         /\ result.state = "returned"
         /\ result.val.kind = "Layer")
         => LET q == result'.target
                merged == result.val.layer
            IN /\ HeldBy(merged, q) # {}
                    => \A s \in Slots(image) : SlotUnchanged(s)
               /\ (\E k \in 1..Len(image.layers) : SlotsHolding(image, k, q) # {})
                    => \A i \in 1..Len(merged.raster) :
                         IsPixel(heap, merged.raster[i])
                           => PixelValue(heap', merged.raster[i])
                                = PixelValue(heap, merged.raster[i])]_vars

\* a pixel of the merged layer was changed, the image holding pixels too
C26_Witness ==
  /\ result.state = "mutated"
  /\ result.merged.state = "returned"
  /\ result.merged.val.kind = "Layer"
  /\ HeldBy(result.merged.val.layer, result.target) # {}
  /\ \E s \in Slots(image) : IsPixel(heap, image.layers[s[1]].raster[s[2]])
  /\ Len(image.layers) = 2

-----------------------------------------------------------------------------
(* fromBuffer and toBuffer step by step: the call, zlib calling back, and    *)
(* the reactions p.then(..).catch(..) that run the caller's callback         *)

\* zlib.gzip(res, (err, deflated) => { if (err) reject(err);
\* resolve(deflated); }), err as zlib gives it
GzipCallback(h, res, err) ==
  Resolve(IF err THEN Reject(Pending, "ZlibError") ELSE Pending,
          h, gzip(res).data)

\* what the caller passes as callback: nothing, a function that returns, a
\* function that throws
Callbacks == { "none", "returns", "raises" }

\* the streams of at most one layer of one slot
AsyncStreams == { s \in Streams : Len(s.data) <= 8 + 8 + PIXEL_SIZE }

Idle ==
  [op |-> "none", pc |-> "idle", callback |-> "none", promise |-> Pending,
   res |-> <<>>, zlibFailed |-> FALSE, reason |-> "", calls |-> 0,
   delivered |-> "", unhandled |-> FALSE]

\* an image of at most one layer of one slot; spoilt: a channel of its first
\* colour was set to 256, which the setter stores before it throws
InitAsync ==
  /\ \E descs \in LayerSeqs(CodecPool, 1, 1), spoilt \in BOOLEAN :
       LET m == MkLayers(EmptyHeap, descs, 1)
       IN /\ heap = IF spoilt /\ Len(m.heap.colors) > 0
                    THEN SetChannel(m.heap, 1, "r", 256).heap
                    ELSE m.heap
          /\ image = [version |-> Num(0), layers |-> m.layers, isImage |-> TRUE]
  /\ input = [kind |-> "async", image |-> image, stream |-> NoBuffer]
  /\ buffer = NoBuffer
  /\ result = Idle
  /\ trace = <<>>

\* fromBuffer(buffer, callback): zlib.unzip is started
CallFromBuffer ==
  /\ result.pc = "idle"
  /\ \E s \in AsyncStreams, cb \in Callbacks :
       /\ buffer' = s
       /\ result' = [Idle EXCEPT !.op = "fromBuffer", !.pc = "zlib",
                                 !.callback = cb]
  /\ trace' = <<"fromBuffer">>
  /\ UNCHANGED <<heap, image, input>>

\* toBuffer(image, callback): throws for what is not an Image; the executor
\* of the promise serialises the image, and starts zlib.gzip unless that threw
CallToBuffer ==
  /\ result.pc = "idle"
  /\ \E arg \in { image, NoImage }, cb \in Callbacks :
       IF ~arg.isImage
       THEN result' = [Idle EXCEPT !.op = "toBuffer", !.pc = "thrown",
                                   !.callback = cb, !.reason = "Error"]
       ELSE LET w == writeInflatedBuffer(heap, arg)
            IN IF w.err # ""
               THEN result' = [Idle EXCEPT
                                 !.op = "toBuffer", !.callback = cb,
                                 !.promise = Reject(Pending, w.err),
                                 !.pc = IF cb = "none" THEN "done" ELSE "then"]
               ELSE result' = [Idle EXCEPT !.op = "toBuffer", !.pc = "zlib",
                                           !.callback = cb, !.res = w.res]
  /\ trace' = <<"toBuffer">>
  /\ UNCHANGED <<heap, image, buffer, input>>

\* zlib calls back: the promise settles
ZlibDone ==
  /\ result.pc = "zlib"
  /\ \/ /\ result.op = "fromBuffer"
        /\ LET p == fromBuffer(heap, buffer)
           IN /\ result' = [result EXCEPT
                              !.promise = p,
                              !.zlibFailed = unzip(buffer).err,
                              !.pc = IF result.callback = "none"
                                     THEN "done" ELSE "then"]
              /\ heap' = IF p.state = "resolved" THEN p.heap ELSE heap
     \/ /\ result.op = "toBuffer"
        /\ \E err \in BOOLEAN :
             result' = [result EXCEPT
                          !.promise = GzipCallback(heap, result.res, err),
                          !.zlibFailed = err,
                          !.pc = IF result.callback = "none"
                                 THEN "done" ELSE "then"]
        /\ heap' = heap
  /\ trace' = Append(trace, "zlib")
  /\ UNCHANGED <<image, buffer, input>>

\* p.then(res => callback(null, res)): runs the callback if p is resolved; the
\* promise then returns is rejected if p is, or if the callback throws
RunThen ==
  /\ result.pc = "then"
  /\ IF result.promise.state = "resolved"
     THEN /\ result' = [result EXCEPT
                          !.calls = @ + 1,
                          !.delivered = "value",
                          !.reason = IF result.callback = "raises"
                                     THEN "CallbackError" ELSE "",
                          !.pc = IF result.callback = "raises"
                                 THEN "catch" ELSE "done"]
          /\ trace' = Append(trace, "callback(null, res)")
     ELSE /\ result' = [result EXCEPT !.reason = result.promise.reason,
                                      !.pc = "catch"]
          /\ trace' = Append(trace, "then")
  /\ UNCHANGED <<heap, image, buffer, input>>

\* .catch(e => callback(e)): runs the callback with the reason of the
\* rejection
RunCatch ==
  /\ result.pc = "catch"
  /\ result' = [result EXCEPT !.calls = @ + 1,
                              !.delivered = result.reason,
                              !.unhandled = result.callback = "raises",
                              !.pc = "done"]
  /\ trace' = Append(trace, "callback(e)")
  /\ UNCHANGED <<heap, image, buffer, input>>

NextAsync == CallFromBuffer \/ CallToBuffer \/ ZlibDone \/ RunThen \/ RunCatch

SpecAsync == InitAsync /\ [][NextAsync]_vars

\* C22: a call of fromBuffer or toBuffer that was given a callback runs it
\* exactly once, with the value or with the error, whatever zlib and the
\* callback do: it is never run a second time, and it has run once when
\* nothing is left to run; without a callback the promise is settled by then;
\* and when zlib failed, the outcome is zlib's error.
C22_SingleOutcome ==
  /\ result.callback # "none" => result.calls <= 1
  /\ (result.pc = "done" /\ result.callback # "none") => result.calls = 1
  /\ (result.pc = "done" /\ result.callback = "none")
       => result.promise.state \in { "resolved", "rejected" }
  /\ (result.pc = "done" /\ result.zlibFailed)
       => /\ result.promise.state = "rejected"
          /\ result.promise.reason = "ZlibError"
          /\ result.callback # "none" => result.delivered = "ZlibError"

-----------------------------------------------------------------------------
(* Calls in flight: a caller that starts toBuffer and fromBuffer, changes    *)
(* its image while zlib is at work, and receives the results in any order    *)

MaxFlight == 2

\* the deflated bytes built from what the image is when zlib calls back
DeflateLate(call, h, img) ==
  GzipCallback(h, writeInflatedBuffer(h, img).res, FALSE)

\* zlib.gzip(res, ..): res is the buffer the executor built when toBuffer was
\* called
Deflate(call, h, img) == GzipCallback(h, call.res, FALSE)

\* a layer of one or two slots, set or unset
FlightLayers == LayerDescs({ <<1, 1>>, <<2, 1>> }, <<PixelA>>, TRUE)

\* streams of version 0: a layer of one slot, the same cut short by a byte,
\* and one that zlib rejects
FlightStreams ==
  { s \in Streams : \/ s.format = "corrupt"
                    \/ /\ s.format = "gzip"
                       /\ Len(s.data) \in { 7 + 8 + PIXEL_SIZE, 8 + 8 + PIXEL_SIZE }
                       /\ s.data[1] = 0
                       /\ s.data[5] = 1
                       /\ s.data[17] = 4 }

\* the values of an image: version, and per layer the dimensions and the
\* values of every slot's pixel, none for an unset slot
ImageValues(h, img) ==
  [version |-> img.version,
   layers |-> [l \in 1..Len(img.layers) |->
                 [width |-> img.layers[l].width,
                  height |-> img.layers[l].height,
                  raster |-> [i \in 1..Len(img.layers[l].raster) |->
                                IF IsPixel(h, img.layers[l].raster[i])
                                THEN <<PixelValue(h, img.layers[l].raster[i])>>
                                ELSE <<>>]]]]

InitFlight ==
  /\ \E desc \in FlightLayers :
       LET m == MkLayers(EmptyHeap, <<desc>>, 1)
       IN /\ heap = m.heap
          /\ image = [version |-> Num(0), layers |-> m.layers, isImage |-> TRUE]
  /\ input = [kind |-> "flight", image |-> image, stream |-> NoBuffer]
  /\ buffer = NoBuffer
  /\ result = [calls |-> <<>>]
  /\ trace = <<>>

\* p = toBuffer(image): the executor serialises the image at once
StartEncode ==
  /\ Len(result.calls) < MaxFlight
  /\ LET w == writeInflatedBuffer(heap, image)
     IN result' = [calls |-> Append(result.calls,
                     [op |-> "toBuffer", state |-> "flight", res |-> w.res,
                      err |-> w.err, stream |-> NoBuffer,
                      heap0 |-> heap, image0 |-> image,
                      promise |-> IF w.err # "" THEN Reject(Pending, w.err)
                                  ELSE Pending])]
  /\ trace' = Append(trace, "toBuffer")
  /\ UNCHANGED <<heap, image, buffer, input>>

\* p = fromBuffer(buffer)
StartDecode ==
  /\ Len(result.calls) < MaxFlight
  /\ \E s \in FlightStreams :
       result' = [calls |-> Append(result.calls,
                    [op |-> "fromBuffer", state |-> "flight", res |-> <<>>,
                     err |-> "", stream |-> s,
                     heap0 |-> EmptyHeap, image0 |-> NoImage,
                     promise |-> Pending])]
  /\ trace' = Append(trace, "fromBuffer")
  /\ UNCHANGED <<heap, image, buffer, input>>

\* the caller changes its image while calls are in flight: pixel.asciiCode = 1
\* or pixel.bg.b = 255 on a pixel of a slot, a slot set to the pixel of
\* another, the version
MutateImage ==
  /\ \E c \in 1..Len(result.calls) : result.calls[c].state = "flight"
  /\ \/ \E s \in Slots(image) :
          LET q == image.layers[s[1]].raster[s[2]]
          IN /\ IsPixel(heap, q)
             /\ \/ heap' = [heap EXCEPT !.pixels[q].asciiCode = Num(1)]
                \/ heap' = SetChannel(heap, heap.pixels[q].bg, "b", 255).heap
             /\ image' = image
     \/ \E s \in Slots(image), t \in Slots(image) :
          /\ IsPixel(heap, image.layers[t[1]].raster[t[2]])
          /\ image' = [image EXCEPT !.layers[s[1]].raster[s[2]] =
                                      image.layers[t[1]].raster[t[2]]]
          /\ heap' = heap
     \/ /\ image' = [image EXCEPT !.version = Num(1)]
        /\ heap' = heap
  /\ UNCHANGED <<buffer, result, trace, input>>

\* zlib calls back for one of the calls in flight, and its promise settles
Deliver ==
  /\ \E c \in 1..Len(result.calls) :
       /\ result.calls[c].state = "flight"
       /\ \/ /\ result.calls[c].op = "toBuffer"
             /\ result' = [result EXCEPT
                  !.calls[c].state = "delivered",
                  !.calls[c].promise =
                     IF result.calls[c].err # "" THEN @
                     ELSE Deflate(result.calls[c], heap, image)]
             /\ heap' = heap
          \/ /\ result.calls[c].op = "fromBuffer"
             /\ LET p == fromBuffer(heap, result.calls[c].stream)
                IN /\ result' = [result EXCEPT !.calls[c].state = "delivered",
                                               !.calls[c].promise = p]
                   /\ heap' = IF p.state = "resolved" THEN p.heap ELSE heap
  /\ trace' = Append(trace, "deliver")
  /\ UNCHANGED <<image, buffer, input>>

NextFlight == StartEncode \/ StartDecode \/ MutateImage \/ Deliver

SpecFlight == InitFlight /\ [][NextFlight]_vars

\* the outcome of a call made on its own, nothing else in flight
Alone(call) ==
  IF call.op = "toBuffer" THEN toBuffer(call.heap0, call.image0)
  ELSE fromBuffer(EmptyHeap, call.stream)

\* C27: what a call delivers depends on what it was given when it was made
\* and on nothing that happened while it was in flight: the bytes toBuffer
\* delivers are those of the image as it was at the call, and decode to that
\* image, whatever was changed in the image, its layers or its pixels before
\* the delivery; and every call, encode or decode, delivers what it would
\* deliver alone, whatever other call was in flight with it.
C27_EncodeSnapshot ==
  \A c \in 1..Len(result.calls) :
    LET call == result.calls[c]
        alone == Alone(call)
    IN call.state = "delivered"
         => /\ call.promise.state = alone.state
            /\ call.promise.state = "rejected"
                 => call.promise.reason = alone.reason
            /\ (call.promise.state = "resolved" /\ call.op = "toBuffer")
                 => /\ call.promise.value = alone.value
                    /\ LET back == fromBuffer(EmptyHeap, call.promise.value)
                       IN /\ back.state = "resolved"
                          /\ ImageValues(back.heap, back.value)
                               = ImageValues(call.heap0, call.image0)
            /\ (call.promise.state = "resolved" /\ call.op = "fromBuffer")
                 => ImageValues(heap, call.promise.value)
                      = ImageValues(alone.heap, alone.value)

\* an encode was delivered after the image was changed while it was in
\* flight, another call in flight with it
C27_Witness ==
  /\ Len(result.calls) = 2
  /\ result.calls[1].op = "toBuffer"
  /\ result.calls[1].state = "delivered"
  /\ result.calls[1].promise.state = "resolved"
  /\ result.calls[2].op = "fromBuffer"
  /\ trace = <<"toBuffer", "fromBuffer", "deliver", "deliver">>
  /\ ImageValues(heap, image)
       # ImageValues(result.calls[1].heap0, result.calls[1].image0)
  /\ Len(image.layers[1].raster) = 2

====
